---- MODULE Spec2Model ----
(***************************************************************************)
(* A model of the context and resilience subsystem of pup.ai:              *)
(*   - OpenAIService.retryWithBackoff, the retry wrapper with its circuit  *)
(*     breaker, and OpenAIService.ingestMessage, its only caller           *)
(*     (src/src/services/openai.ts);                                       *)
(*   - the cost ledger written by OpenAIService.recordInteraction;         *)
(*   - processMessage, which fans out to memory formation and response     *)
(*     generation (src/src/pipeline);                                      *)
(*   - the entity cache of RedisService in front of the users table        *)
(*     (src/src/services/redis.ts, src/src/services/users.ts).             *)
(* Node.js runs one callback at a time: every action below is the code     *)
(* that runs between two awaits of one asynchronous call.                  *)
(***************************************************************************)
EXTENDS Integers, Sequences, FiniteSets, TLC

(***************************************************************************)
(* Bounds of the model.                                                    *)
(***************************************************************************)
\* number of pipeline runs that may be in flight at the same time
NumCalls == 2

Calls == 1..NumCalls

(***************************************************************************)
(* Constants of the program.                                               *)
(***************************************************************************)
\* openai.ts:84   maxRetries: number = 3
maxRetries == 3
\* openai.ts:147  if (this.consecutiveFailures >= 5)
FailureThreshold == 5
\* openai.ts:149  new Date(Date.now() + 60000)
ResetDelayMs == 60000
\* openai.ts:121  Math.min(1000 * Math.pow(2, attempt), 10000)
BackoffBaseMs == 1000
BackoffCapMs == 10000

(***************************************************************************)
(* Time.  The code reads the clock only to compare it with a time it       *)
(* stored earlier (the reset time of the breaker, the due time of a        *)
(* backoff timer), so every stored time is kept relative to the present:   *)
(* Date.now() is Now, and when d milliseconds pass every stored time       *)
(* drops by d.  A time that is past is kept as Past: how long ago it was   *)
(* changes no comparison.                                                  *)
(***************************************************************************)
Now == 0
Past == -1
\* circuitBreakerResetTime?: Date is undefined until the breaker first opens
NoTime == -2
\* error.status of the error a wrapped operation rejects with; NoStatus is an
\* error that carries no status (a network error): undefined >= 500 is false
NoStatus == 0
Statuses == {NoStatus, 400, 429, 500}
ApiError(status) == [kind |-> "api", status |-> status]
\* the error retryWithBackoff throws itself (openai.ts:93)
CircuitOpenError == [kind |-> "circuit-open", status |-> NoStatus]
NoError == [kind |-> "none", status |-> NoStatus]

Min(a, b) == IF a <= b THEN a ELSE b

RECURSIVE Pow2(_)
Pow2(n) == IF n = 0 THEN 1 ELSE 2 * Pow2(n - 1)

\* openai.ts:121
backoffMs(att) == Min(BackoffBaseMs * Pow2(att), BackoffCapMs)

\* openai.ts:115
isRateLimitError(status) == status = 429
\* openai.ts:116
isServerError(status) == status >= 500
\* openai.ts:114
isLastAttempt(att) == att = maxRetries
\* a wrapper that retries every error
shouldRetry_any(status, att) == ~isLastAttempt(att)
\* openai.ts:117
shouldRetry(status, att) ==
    (isRateLimitError(status) \/ isServerError(status)) /\ ~isLastAttempt(att)

\* a reset check that already passes at the reset time itself
resetElapsed_atTime(t, resetTime) == resetTime # NoTime /\ t >= resetTime
\* openai.ts:88   this.circuitBreakerResetTime && new Date() > this.circuitBreakerResetTime
resetElapsed(t, resetTime) == resetTime # NoTime /\ t > resetTime

\* a threshold that is off by one
reachesThreshold_late(failures) == failures > FailureThreshold
\* openai.ts:147
reachesThreshold(failures) == failures >= FailureThreshold

\* a stored time after d milliseconds have passed
elapse(t, d) == IF t = NoTime THEN NoTime ELSE IF t - d >= Now THEN t - d ELSE Past

(***************************************************************************)
(* What the chat completion of ingestMessage resolves with.                *)
(*   content: "ok" parses and passes IngestionResultSchema; "bad" has no   *)
(*            choices[0].message.content, or fails JSON.parse or the       *)
(*            schema (openai.ts:223-229);                                  *)
(*   usage:   whether response.usage.total_tokens is truthy;               *)
(*   the decision fields only matter when content = "ok".                  *)
(***************************************************************************)
\* a default that asks for a memory and a response
SafeDefault_eager ==
    [shouldFormMemory |-> TRUE, shouldRespond |-> TRUE, hasType |-> TRUE, significance |-> 0]
\* openai.ts:256-265
SafeDefault ==
    [shouldFormMemory |-> FALSE, shouldRespond |-> FALSE, hasType |-> FALSE, significance |-> 0]
Decisions ==
    { [shouldFormMemory |-> TRUE, shouldRespond |-> TRUE, hasType |-> TRUE, significance |-> 1],
      [shouldFormMemory |-> FALSE, shouldRespond |-> FALSE, hasType |-> FALSE, significance |-> 0] }
Responses ==
    { [content |-> "ok", usage |-> u, decision |-> d] : u \in BOOLEAN, d \in Decisions }
    \cup { [content |-> "bad", usage |-> FALSE, decision |-> SafeDefault] }
NoResponse == [content |-> "none", usage |-> FALSE, decision |-> SafeDefault]

VARIABLES
    consecutiveFailures,      \* OpenAIService.consecutiveFailures
    circuitBreakerOpen,       \* OpenAIService.circuitBreakerOpen
    circuitBreakerResetTime,  \* OpenAIService.circuitBreakerResetTime
    pc,                       \* where each call stands
    attempt,                  \* the loop variable of retryWithBackoff
    wake,                     \* when the backoff timer of a call is due
    invoked,                  \* how often this wrapped call invoked operation()
    err,                      \* the error the call saw last
    resp,                     \* what operation() resolved with
    decision,                 \* what ingestMessage returns
    interactions,             \* rows this call appended to the interactions table
    failStreak,               \* history: terminal failures since the last success
    trial,                    \* history: calls admitted by the reset check, still in the wrapper
    trialFailed,              \* history: the last such call failed, and none succeeded since
    mpc,                      \* where the memory-formation branch of each call stands
    rpc                       \* where the response branch of each call stands

(***************************************************************************)
(* The entity cache (src/src/services/redis.ts) in front of the users      *)
(* table (src/src/services/users.ts).  One user is followed; its row is    *)
(* known by the number of writes it has seen, which stands for the         *)
(* last_seen and updated_at that every write sets.  getChannelVibe and     *)
(* updateChannelVibe (channels.ts) take the same steps on channel_vibes.   *)
(***************************************************************************)
NumReaders == 2
NumWriters == 1
MaxVersion == 3
Readers == 1..NumReaders
Writers == 1..NumWriters

\* users.ts:65  cacheUserProfile(slackId, profile, 3600)
ProfileTtlS == 3600
\* the clock step of the cache's time, in seconds
TtlStepS == 1800

\* no row in the users table; the row that INSERT creates (users.ts:75-92)
NoRow == 0
FirstRow == 1
\* null, and a profile: the row's version with its dates as Date objects or,
\* after JSON, as strings
NoProfile == [version |-> NoRow, dates |-> "none"]
\* users.ts:246-259
dbRowToUserProfile(row) == [version |-> row, dates |-> "Date"]
\* JSON.stringify writes a Date as its ISO string, and JSON.parse gives the
\* string back (redis.ts:153, 169)
stringify(p) == [json |-> p.version]
parse(text) == [version |-> text.json, dates |-> "string"]
NoEntry == [value |-> [json |-> NoRow], ttl |-> 0]
NoResult == [kind |-> "none", profile |-> NoProfile]

VARIABLES
    redisService,             \* the singleton exists (redis.ts:272)
    connected,                \* RedisService.connected
    redisUp,                  \* the Redis server answers commands
    cache,                    \* the key user:<id>:profile: its value and remaining TTL
    users,                    \* the user's row
    gpc,                      \* where each ensureUserExists call stands
    profile,                  \* the profile each call has loaded
    result,                   \* what each call returned or threw
    floor,                    \* history: the newest write invalidated before the call began
    lookup,                   \* history: what the call's cache lookup came to
    cachedFor,                \* history: seconds since the key was last set, up to its TTL
    wpc,                      \* where each updateUserActivity call stands
    wrote,                    \* the version each writer's UPDATE left
    invalidated               \* history: the newest write whose invalidateCache returned

substrateVars == <<redisService, connected, redisUp>>
readerVars == <<gpc, profile, result, floor, lookup>>
writerVars == <<wpc, wrote, invalidated>>
cacheVars == <<substrateVars, cache, cachedFor, users, readerVars, writerVars>>

(***************************************************************************)
(* The message buffer of a channel (RedisService.bufferMessage and         *)
(* getRecentMessages): the Redis list channel:<id>:messages, newest first. *)
(* A message is known by its stamp, the rank of its lPush among the pushes *)
(* the list has seen.  The list lives in Redis and outlives the process:   *)
(* it may hold messages when the service is constructed.                   *)
(***************************************************************************)
NumAppenders == 2
NumQueries == 1
MaxAppends == 102
Appenders == 1..NumAppenders
Queries == 1..NumQueries

\* redis.ts:95  lTrim(key, 0, 99): the list keeps 100 entries
TrimStop == 99
BufferCap == TrimStop + 1
\* redis.ts:98  expire(key, 86400)
BufferTtlS == 86400
\* the clock step of the list's time, in seconds
BufferTtlStepS == 43200
\* a key that has no expiration (TTL answers -1), and no time left
NoExpiry == -1
NoTtl == 0
\* redis.ts:110  limit: number = 100, and the limits a caller may pass
DefaultLimit == 100
Limits == {0, 1, DefaultLimit}
\* the number of appends the list may have seen when the service is constructed
Prefilled == {BufferCap - 2}

\* the message a caller hands over (openai.ts:22-33), with the stamp its push gets
MessageContext(stamp) == [stamp |-> stamp, channel |-> "C1"]
\* redis.ts:84-89  JSON.stringify of text, user, timestamp and thread_ts:
\* the channel is not written
stringifyMessage(msg) == [json |-> msg.stamp]
\* redis.ts:121  JSON.parse(msg)
parseMessage(text) == [stamp |-> text.json, channel |-> "undefined"]

\* a push that adds at the tail of the list, as rPush does
lPush_tail(list, text) == list \o <<text>>

\* Redis list commands.  Indexes count from 0; a negative index counts from
\* the tail; a range that ends before it starts is empty
lPush(list, text) == <<text>> \o list
fromHead(index, len) == IF index >= 0 THEN index ELSE len + index
lRange(list, start, stop) ==
    LET len == Len(list)
        first == IF fromHead(start, len) < 0 THEN 0 ELSE fromHead(start, len)
        last == IF fromHead(stop, len) >= len THEN len - 1 ELSE fromHead(stop, len)
    IN  IF first > last THEN <<>> ELSE SubSeq(list, first + 1, last + 1)
lTrim_keepAll(list, start, stop) == list
lTrim(list, start, stop) == lRange(list, start, stop)

\* the list after n pushes, stamps n down to 1, trimmed as bufferMessage does
Warm(n) == lTrim([i \in 1..n |-> stringifyMessage(MessageContext(n + 1 - i))], 0, TrimStop)

VARIABLES
    messages,                 \* the list channel:C1:messages, head first
    msgTtl,                   \* the list's remaining TTL, NoExpiry if it has none
    pushed,                   \* history: how many lPush the list has seen
    appended,                 \* how many bufferMessage calls the channel has seen
    apc,                      \* where each bufferMessage call stands
    outcome,                  \* how each bufferMessage call ended
    qpc,                      \* where each getRecentMessages call stands
    limit,                    \* its limit
    recent                    \* what it returned

bufferVars == <<messages, msgTtl, pushed, appended, apc, outcome, qpc, limit, recent>>

(***************************************************************************)
(* The memory store: the tables memories and vec_memories, written by      *)
(* formMemory, read by searchMemories and getRecentMemories                *)
(* (pipeline/memory.ts) and swept by cleanupExpiredMemories                *)
(* (database/connection).  One channel; a record is named by the order of  *)
(* its uuid.  A time is a date and a time of day; the INSERT writes        *)
(* expires_at as Date.toISOString() text, the queries compare it as text   *)
(* with what SQLite's datetime('now') returns.                             *)
(***************************************************************************)
NumFormers == 1
NumSearchers == 1
MaxMemories == 2
MaxSearches == 2
MaxDate == 2
LastSecond == 1
RetentionDays == 1
Formers == 1..NumFormers
Searchers == 1..NumSearchers
Ids == 1..MaxMemories

\* significance in tenths: -0.1, 0.5, 1.5
Significances == {-1, 5, 15}
SearchLimits == {1, 5}
Query == "standup"
SearchableTexts == {"standup moved to 10am"}
contains(text, query) == query = "standup" /\ text \in {"standup moved to 10am"}

StartOfTime == [date |-> 0, time |-> 0]
\* a date moved the wrong way
addDays_back(t, days) == [date |-> t.date - days, time |-> t.time]
\* setDate(getDate() + days)
addDays(t, days) == [date |-> t.date + days, time |-> t.time]
before(t, u) == t.date < u.date \/ (t.date = u.date /\ t.time < u.time)

\* "2026-03-01T10:00:00.000Z" and "2026-03-01 10:00:00"
toISOString(t) == [date |-> t.date, sep |-> "T", time |-> t.time]
datetime(t) == [date |-> t.date, sep |-> " ", time |-> t.time]
instant(text) == [date |-> text.date, time |-> text.time]
charCode(ch) == IF ch = "T" THEN 84 ELSE 32

\* SQLite's comparison of two TEXT values: character by character
textLess(a, b) ==
    \/ a.date < b.date
    \/ a.date = b.date /\ charCode(a.sep) < charCode(b.sep)
    \/ a.date = b.date /\ a.sep = b.sep /\ a.time < b.time

\* CHECK(significance_score BETWEEN 0 AND 1)
checkSignificance(score) == 0 <= score /\ score <= 10

\* process.env.MEMORY_EXPIRATION_DAYS: unset, or a string of characters.  The
\* default of memory.ts:28 is '180'; the model's default window is
\* RetentionDays.
Unset == <<>>
Environments == {Unset, <<"0">>, <<"-", "1">>, <<"x">>}
digitOf(ch) ==
    CASE ch = "0" -> 0 [] ch = "1" -> 1 [] ch = "2" -> 2 [] ch = "3" -> 3 [] ch = "4" -> 4
      [] ch = "5" -> 5 [] ch = "6" -> 6 [] ch = "7" -> 7 [] ch = "8" -> 8 [] ch = "9" -> 9
      [] OTHER -> -1
\* the value of the longest prefix of digits, given the value read so far
RECURSIVE digitsValue(_, _)
digitsValue(text, read) ==
    IF text = <<>> \/ digitOf(Head(text)) < 0 THEN read
    ELSE digitsValue(Tail(text), 10 * read + digitOf(Head(text)))
\* parseInt: an optional sign and the digits that follow; NaN without a digit
parseInt(text) ==
    LET negative == text # <<>> /\ Head(text) = "-"
        digits == IF negative THEN Tail(text) ELSE text
    IN  IF digits = <<>> \/ digitOf(Head(digits)) < 0
        THEN [isNaN |-> TRUE, value |-> 0]
        ELSE [isNaN |-> FALSE,
              value |-> IF negative THEN 0 - digitsValue(digits, 0) ELSE digitsValue(digits, 0)]
\* parseInt(process.env.MEMORY_EXPIRATION_DAYS || '180')
expirationDays(env) ==
    IF env = Unset THEN [isNaN |-> FALSE, value |-> RetentionDays] ELSE parseInt(env)

NoMemory == [significance |-> 0, dims |-> 0, text |-> ""]
NoRecord == [kept |-> FALSE]
User == "U1"
Null == "NULL"
NoCount == -1
Raised == -2
Record(mem, expiresAt) ==
    [kept |-> TRUE, user_id |-> User, significance_score |-> mem.significance,
     searchable_text |-> mem.text, expires_at |-> toISOString(expiresAt),
     reference_count |-> 0]

VARIABLES
    clock,                    \* the wall clock
    memories,                 \* the table memories, by id
    vec_memories,             \* the ids with a row in vec_memories
    created,                  \* how many uuids formMemory has drawn
    searches,                 \* how many searchMemories calls were made
    fpc,                      \* where each formMemory call stands
    memory,                   \* the memory it got from the model
    memoryId,                 \* its uuid
    expiresAt,                \* the expiration it computed
    createdAt,                \* history: when formMemory made the record it inserts
    MEMORY_EXPIRATION_DAYS,   \* process.env.MEMORY_EXPIRATION_DAYS
    saved,                    \* history: its INSERT INTO memories succeeded
    memoryFormed,             \* what processMessage reports for it
    spc,                      \* where each searchMemories call stands
    searchLimit,              \* its limit
    results,                  \* the ids of the rows its SELECT returned
    found,                    \* the ids of the memories it returned
    selected,                 \* the ids getRecentMemories returned
    removed,                  \* what cleanupExpiredMemories returned, NoCount between calls
    escaped,                  \* history: the reads that let an error out to their caller
    dpc                       \* where the deleteUserData call stands

storeVars == <<clock, memories, vec_memories, created, searches>>
formerVars == <<fpc, memory, memoryId, expiresAt, createdAt, MEMORY_EXPIRATION_DAYS, saved, memoryFormed>>
searcherVars == <<spc, searchLimit, results, found>>
callerVars == <<escaped, dpc>>
memoryVars == <<storeVars, formerVars, searcherVars, selected, removed, callerVars>>

(***************************************************************************)
(* The v2 message handler (src/index.ts): app.message with the bot's user  *)
(* id, the set of handled message ids and the set of active channels, all  *)
(* three module-level and shared by every invocation of the handler.       *)
(* Texts and channel ids are sequences of characters, so that includes and *)
(* startsWith are computed as String.prototype.includes and startsWith     *)
(* compute them.                                                           *)
(***************************************************************************)
NumHandlers == 2
MaxDeliveries == 3
PruneAbove == 1000
PruneCount == 500
\* the ids the set holds when the model starts: none, or one less than the
\* size the pruning lets through
Backlog == PruneAbove - 1
Backlogs == {0, Backlog}
Handlers == 1..NumHandlers

Bot == "B"
\* client.auth.test() rejected
Rejected == "REJECTED"
PublicChannel == <<"C", "1">>
DirectChannel == <<"D", "1">>
Channels == {PublicChannel, DirectChannel}

\* `<@${botUserId}>`
mention(userId) == <<"<", "@", userId, ">">>
Deactivate == mention(Bot) \o <<" ", "d", "e", "a", "c", "t", "i", "v", "a", "t", "e">>
Activate == mention(Bot) \o <<" ", "A", "c", "t", "i", "v", "a", "t", "e", " ">>
Greeting == mention(Bot) \o <<" ", "h", "i">>
Chatter == <<"h", "i">>
Texts == {Deactivate, Activate, Greeting, Chatter}

lowerCase(ch) ==
    CASE ch = "A" -> "a"
      [] ch = "B" -> "b"
      [] OTHER -> ch
toLowerCase(text) == [i \in DOMAIN text |-> lowerCase(text[i])]
RECURSIVE trimStart(_)
trimStart(text) ==
    IF text # <<>> /\ Head(text) = " " THEN trimStart(Tail(text)) ELSE text
RECURSIVE trimEnd(_)
trimEnd(text) ==
    IF text # <<>> /\ text[Len(text)] = " " THEN trimEnd(SubSeq(text, 1, Len(text) - 1)) ELSE text
trim(text) == trimEnd(trimStart(text))
includes(text, needle) ==
    \E i \in 0..(Len(text) - Len(needle)) : SubSeq(text, i + 1, i + Len(needle)) = needle
startsWith(text, prefix) ==
    Len(text) >= Len(prefix) /\ SubSeq(text, 1, Len(prefix)) = prefix

NoMessage == [ts |-> 0]
\* a message event: subtype stands for `msg.bot_id || msg.subtype`
Message(channel, ts, user, subtype, text) ==
    [channel |-> channel, ts |-> ts, user |-> user, subtype |-> subtype, text |-> text]
\* `${msg.channel}-${msg.ts}`
messageId(m) == m.channel \o <<"-", m.ts>>
\* the messages handled before the model starts: mentions by one user in the
\* public channel
BacklogMessage(ts) == Message(PublicChannel, ts, User, FALSE, Greeting)
\* who sends: a user, the bot itself without and with a bot_id
Senders == {<<User, FALSE>>, <<Bot, FALSE>>, <<Bot, TRUE>>}

\* processedMessages.has(id): the Set as the sequence of its insertion order
has(set, id) == \E i \in DOMAIN set : set[i] = id
\* entries.slice(0, 500).forEach(id => processedMessages.delete(id))
deleteOldest_all(set) == <<>>
deleteOldest(set) == SubSeq(set, PruneCount + 1, Len(set))
cleanup(set) == IF Len(set) > PruneAbove THEN deleteOldest(set) ELSE set

VARIABLES
    botUserId,                \* the bot's user id, Null until auth.test resolved it
    processedMessages,        \* the ids of the handled messages, in insertion order
    activeChannels,           \* the channels in active mode
    hpc,                      \* where each invocation of the handler stands
    msg,                      \* its message
    deliveries,               \* how many events were delivered
    oldest,                   \* the first message sent
    newest,                   \* the last message sent
    passed,                   \* history: the ids that passed the deduplication, in order
    skipped                   \* history: the ids the deduplication returned on

handlerVars == <<botUserId, processedMessages, activeChannels, hpc, msg, deliveries, oldest,
                 newest, passed, skipped>>

\* the handler with n messages handled before
HandlerHolds(n) ==
    /\ botUserId = IF n = 0 THEN Null ELSE Bot
    /\ processedMessages = [i \in 1..n |-> messageId(BacklogMessage(i))]
    /\ activeChannels = {}
    /\ hpc = [h \in Handlers |-> "idle"]
    /\ msg = [h \in Handlers |-> NoMessage]
    /\ deliveries = 0
    /\ oldest = IF n = 0 THEN NoMessage ELSE BacklogMessage(1)
    /\ newest = IF n = 0 THEN NoMessage ELSE BacklogMessage(n)
    /\ passed = processedMessages
    /\ skipped = {}

(***************************************************************************)
(* The cost ledger as its callers see it: which of the operations of one   *)
(* pipeline run had the INSERT of recordInteraction rejected.              *)
(***************************************************************************)
VARIABLES
    lost,                     \* history: the operation types whose ledger write failed
    addressed                 \* history: the message of the run mentions the bot or is a DM

ledgerVars == <<lost, addressed>>

(***************************************************************************)
(* The SELECT of searchMemories (pipeline/memory.ts:108-134) as a function *)
(* of the two tables it joins.  vec_memories is a vec0 virtual table       *)
(* (database/connection.ts:175-178): `embedding MATCH ?` is its            *)
(* nearest-neighbour scan, which takes the LIMIT as the number of          *)
(* neighbours and knows no column of memories; the JOIN and the rest of    *)
(* the WHERE clause see the rows the scan hands out.  The indexed memories *)
(* are numbered by their distance to the query, nearest first.             *)
(***************************************************************************)
MaxIndexed == 3
Indexed == 1..MaxIndexed
SearchChannels == {"C1", "C2"}
KnnLimits == {1, 2}

VARIABLES
    vecTable,                 \* the indexed memories: channel_id and expires_at of each
    vecChannel,               \* the channelId of the search
    vecLimit,                 \* its limit
    vpc,                      \* where the SELECT stands
    vecOk,                    \* whether it resolved
    vecRows                   \* the ids of the rows it returned, in order

vecVars == <<vecTable, vecChannel, vecLimit, vpc, vecOk, vecRows>>

\* no search
SearchIdle ==
    /\ vecTable = <<>>
    /\ vecChannel = "C1"
    /\ vecLimit = 1
    /\ vpc = "idle"
    /\ vecOk = FALSE
    /\ vecRows = <<>>

\* the variables of the sections that follow one run on its own
(***************************************************************************)
(* updateUserPersonality / updateUserSpeechPatterns (services/users.ts:    *)
(* 141-204) on one user whose row exists: the JSON object of the column is *)
(* taken as the set of its keys.                                           *)
(***************************************************************************)
NumUpdaters == 2
Updaters == 1..NumUpdaters
TraitKeys == {"humor", "formality", "curiosity"}
\* the traits each caller passes: the callers' keys are disjoint
Arguments(u) == IF u = 1 THEN {{"humor"}} ELSE {{"formality"}, {"formality", "curiosity"}}
NotCached == [present |-> FALSE, traits |-> {}]
Cached(keys) == [present |-> TRUE, traits |-> keys]
\* { ...user.personality_traits, ...traits }
merge(user, traits) == user \cup traits

VARIABLES
    personality_traits,       \* users.personality_traits of the row
    cachedTraits,             \* the traits of the profile under user:<id>:profile
    ppc,                      \* where each update call stands
    traitsArg,                \* the traits it was called with
    user,                     \* the traits of the profile ensureUserExists gave it
    applied                   \* history: the keys of the calls whose UPDATE was applied

profileVars == <<personality_traits, cachedTraits, ppc, traitsArg, user, applied>>

\* the row as ensureUserExists created it, nothing cached, no call
ProfileIdle ==
    /\ personality_traits = {}
    /\ cachedTraits = NotCached
    /\ ppc = [u \in Updaters |-> "idle"]
    /\ traitsArg = [u \in Updaters |-> {}]
    /\ user = [u \in Updaters |-> {}]
    /\ applied = {}

restVars == <<ledgerVars, vecVars, profileVars>>

breakerVars == <<consecutiveFailures, circuitBreakerOpen, circuitBreakerResetTime>>
callVars == <<pc, attempt, wake, invoked, err, resp, decision, interactions>>
histVars == <<failStreak, trial, trialFailed>>
pipeVars == <<mpc, rpc>>
serviceVars == <<breakerVars, callVars, histVars, pipeVars>>
vars == <<serviceVars, cacheVars, bufferVars, memoryVars, handlerVars, restVars>>

\* the process after construction: the services and the cache in front of them
ProcessInit ==
    /\ consecutiveFailures = 0
    /\ circuitBreakerOpen = FALSE
    /\ circuitBreakerResetTime = NoTime
    /\ pc = [c \in Calls |-> "idle"]
    /\ attempt = [c \in Calls |-> 0]
    /\ wake = [c \in Calls |-> Now]
    /\ invoked = [c \in Calls |-> 0]
    /\ err = [c \in Calls |-> NoError]
    /\ resp = [c \in Calls |-> NoResponse]
    /\ decision = [c \in Calls |-> SafeDefault]
    /\ interactions = [c \in Calls |-> <<>>]
    /\ failStreak = 0
    /\ trial = {}
    /\ trialFailed = FALSE
    /\ mpc = [c \in Calls |-> "none"]
    /\ rpc = [c \in Calls |-> "none"]
    /\ lost = {}
    /\ addressed = FALSE
    /\ redisService = FALSE
    /\ connected = FALSE
    /\ redisUp = TRUE
    /\ cache = NoEntry
    /\ users = NoRow
    /\ gpc = [r \in Readers |-> "idle"]
    /\ profile = [r \in Readers |-> NoProfile]
    /\ result = [r \in Readers |-> NoResult]
    /\ floor = [r \in Readers |-> NoRow]
    /\ lookup = [r \in Readers |-> "none"]
    /\ cachedFor = 0
    /\ wpc = [w \in Writers |-> "idle"]
    /\ wrote = [w \in Writers |-> NoRow]
    /\ invalidated = NoRow

\* no bufferMessage or getRecentMessages call under way
BufferIdle ==
    /\ apc = [a \in Appenders |-> "idle"]
    /\ outcome = [a \in Appenders |-> "none"]
    /\ qpc = [q \in Queries |-> "idle"]
    /\ limit = [q \in Queries |-> DefaultLimit]
    /\ recent = [q \in Queries |-> <<>>]

\* the list that n earlier appends left
BufferHolds(n) ==
    /\ appended = n
    /\ messages = Warm(n)
    /\ pushed = n
    /\ msgTtl = IF n = 0 THEN NoTtl ELSE BufferTtlS

\* an empty store and no call on it under way
EnvironmentUnset == MEMORY_EXPIRATION_DAYS = Unset

StoreEmpty ==
    /\ clock = StartOfTime
    /\ memories = [id \in Ids |-> NoRecord]
    /\ vec_memories = {}
    /\ created = 0
    /\ searches = 0
    /\ fpc = [f \in Formers |-> "idle"]
    /\ memory = [f \in Formers |-> NoMemory]
    /\ memoryId = [f \in Formers |-> 0]
    /\ expiresAt = [f \in Formers |-> StartOfTime]
    /\ createdAt = [f \in Formers |-> StartOfTime]
    /\ saved = [f \in Formers |-> FALSE]
    /\ memoryFormed = [f \in Formers |-> FALSE]
    /\ spc = [s \in Searchers |-> "idle"]
    /\ searchLimit = [s \in Searchers |-> 0]
    /\ results = [s \in Searchers |-> {}]
    /\ found = [s \in Searchers |-> {}]
    /\ selected = {}
    /\ removed = NoCount
    /\ escaped = {}
    /\ dpc = "idle"

Init ==
    ProcessInit /\ BufferIdle /\ BufferHolds(0) /\ StoreEmpty /\ EnvironmentUnset /\ HandlerHolds(0) /\ SearchIdle /\ ProfileIdle

(***************************************************************************)
(* ingestMessage up to its first await: the circuit-breaker check of       *)
(* retryWithBackoff (openai.ts:87-97) and, when the call is admitted, the  *)
(* first operation() of the loop (openai.ts:99-101).                       *)
(***************************************************************************)
Admit(c) ==
    /\ pc' = [pc EXCEPT ![c] = "op"]
    /\ invoked' = [invoked EXCEPT ![c] = 1]
    /\ err' = [err EXCEPT ![c] = NoError]

\* a wrapper that lets the call through where it should throw
Reject_admitting(c) ==
    /\ pc' = [pc EXCEPT ![c] = "op"]
    /\ invoked' = [invoked EXCEPT ![c] = 1]
    /\ err' = [err EXCEPT ![c] = NoError]

Reject(c) ==
    /\ pc' = [pc EXCEPT ![c] = "threw"]
    /\ invoked' = [invoked EXCEPT ![c] = 0]
    /\ err' = [err EXCEPT ![c] = CircuitOpenError]

\* a reset that closes the breaker and keeps the old failure count
closeBreaker_keepCount ==
    /\ circuitBreakerOpen' = FALSE
    /\ UNCHANGED consecutiveFailures
\* openai.ts:90-91
closeBreaker ==
    /\ circuitBreakerOpen' = FALSE
    /\ consecutiveFailures' = 0

Begin(c) ==
    /\ pc[c] = "idle"
    /\ IF circuitBreakerOpen
       THEN IF resetElapsed(Now, circuitBreakerResetTime)
            THEN /\ closeBreaker
                 /\ trial' = trial \cup {c}
                 /\ trialFailed' = FALSE
                 /\ Admit(c)
            ELSE /\ UNCHANGED <<circuitBreakerOpen, consecutiveFailures, trial, trialFailed>>
                 /\ Reject(c)
       ELSE /\ UNCHANGED <<circuitBreakerOpen, consecutiveFailures, trial, trialFailed>>
            /\ Admit(c)
    /\ attempt' = [attempt EXCEPT ![c] = 0]
    /\ interactions' = [interactions EXCEPT ![c] = <<>>]
    /\ UNCHANGED <<circuitBreakerResetTime, wake, resp, decision, failStreak>>

(***************************************************************************)
(* operation() resolves: openai.ts:101-112.                                *)
(***************************************************************************)
OpResolve(c, r) ==
    /\ pc[c] = "op"
    /\ consecutiveFailures' = 0
    /\ pc' = [pc EXCEPT ![c] = "returned"]
    /\ resp' = [resp EXCEPT ![c] = r]
    /\ attempt' = [attempt EXCEPT ![c] = 0]
    /\ invoked' = [invoked EXCEPT ![c] = 0]
    /\ err' = [err EXCEPT ![c] = NoError]
    /\ failStreak' = 0
    /\ trial' = trial \ {c}
    /\ trialFailed' = FALSE
    /\ UNCHANGED <<circuitBreakerOpen, circuitBreakerResetTime, wake, decision, interactions>>

(***************************************************************************)
(* operation() rejects with an error of the given status: openai.ts:113-157 *)
(***************************************************************************)
OpReject(c, status) ==
    /\ pc[c] = "op"
    /\ err' = [err EXCEPT ![c] = ApiError(status)]
    /\ IF shouldRetry(status, attempt[c])
       THEN /\ wake' = [wake EXCEPT ![c] = Now + backoffMs(attempt[c])]
            /\ pc' = [pc EXCEPT ![c] = "backoff"]
            /\ UNCHANGED <<breakerVars, attempt, histVars>>
       ELSE /\ consecutiveFailures' = consecutiveFailures + 1
            /\ IF reachesThreshold(consecutiveFailures + 1)
               THEN /\ circuitBreakerOpen' = TRUE
                    /\ circuitBreakerResetTime' = Now + ResetDelayMs
               ELSE UNCHANGED <<circuitBreakerOpen, circuitBreakerResetTime>>
            /\ pc' = [pc EXCEPT ![c] = "threw"]
            /\ attempt' = [attempt EXCEPT ![c] = 0]
            /\ failStreak' = Min(failStreak + 1, FailureThreshold)
            /\ trial' = trial \ {c}
            /\ trialFailed' = IF c \in trial THEN TRUE ELSE trialFailed
            /\ UNCHANGED wake
    /\ UNCHANGED <<invoked, resp, decision, interactions>>

(***************************************************************************)
(* The backoff timer fires (openai.ts:131-132) and the loop invokes        *)
(* operation() again (openai.ts:99-101).                                   *)
(***************************************************************************)
BackoffDone(c) ==
    /\ pc[c] = "backoff"
    /\ Now >= wake[c]
    /\ attempt' = [attempt EXCEPT ![c] = attempt[c] + 1]
    /\ invoked' = [invoked EXCEPT ![c] = invoked[c] + 1]
    /\ pc' = [pc EXCEPT ![c] = "op"]
    /\ UNCHANGED <<breakerVars, wake, err, resp, decision, interactions, histVars>>

(***************************************************************************)
(* ingestMessage after the wrapped call returned: openai.ts:223-245.       *)
(***************************************************************************)
IngestAfterCall(c) ==
    /\ pc[c] = "returned"
    /\ IF resp[c].content # "ok"
       THEN \* line 225, 228 or 229 throws; the catch of line 253 returns the defaults
            /\ decision' = [decision EXCEPT ![c] = SafeDefault]
            /\ pc' = [pc EXCEPT ![c] = "ingested"]
       ELSE /\ decision' = [decision EXCEPT ![c] = resp[c].decision]
            /\ pc' = [pc EXCEPT ![c] = IF resp[c].usage THEN "record" ELSE "ingested"]
    /\ resp' = [resp EXCEPT ![c] = NoResponse]
    /\ UNCHANGED <<breakerVars, attempt, wake, invoked, err, interactions, histVars>>

(***************************************************************************)
(* recordInteraction: the INSERT into interactions resolves or rejects;    *)
(* a rejection is logged and swallowed (openai.ts:461-486).                *)
(***************************************************************************)
recordInteraction(c, operationType, success, stored) ==
    interactions' = [interactions EXCEPT ![c] =
        IF stored THEN Append(@, [operation_type |-> operationType, success |-> success])
        ELSE @]

\* a recordInteraction that lets the error of its INSERT out to the caller
catchLedgerError_rethrown(stored) == IF stored THEN "resolved" ELSE "rejected"
\* openai.ts:483-486: the catch logs and returns, so the promise resolves
catchLedgerError(stored) == "resolved"

\* a rejection at line 237 would be caught at line 253
IngestRecorded(c, stored) ==
    /\ pc[c] = "record"
    /\ recordInteraction(c, "ingestion", TRUE, stored)
    /\ pc' = [pc EXCEPT ![c] = IF catchLedgerError(stored) = "resolved" THEN "ingested" ELSE "threw"]
    /\ UNCHANGED <<breakerVars, attempt, wake, invoked, err, resp, decision, histVars>>

(***************************************************************************)
(* The catch of ingestMessage after retryWithBackoff threw:                *)
(* openai.ts:253-266.                                                      *)
(***************************************************************************)
IngestCatch(c) ==
    /\ pc[c] = "threw"
    /\ decision' = [decision EXCEPT ![c] = SafeDefault]
    /\ pc' = [pc EXCEPT ![c] = "ingested"]
    /\ UNCHANGED <<breakerVars, attempt, wake, invoked, err, resp, interactions, histVars>>

(***************************************************************************)
(* ingestMessage has returned to its caller; the call slot is free again.  *)
(***************************************************************************)
IngestReturn(c) ==
    /\ pc[c] = "ingested"
    /\ pc' = [pc EXCEPT ![c] = "idle"]
    /\ invoked' = [invoked EXCEPT ![c] = 0]
    /\ err' = [err EXCEPT ![c] = NoError]
    /\ decision' = [decision EXCEPT ![c] = SafeDefault]
    /\ interactions' = [interactions EXCEPT ![c] = <<>>]
    /\ UNCHANGED <<breakerVars, attempt, wake, resp, histVars>>

(***************************************************************************)
(* Time passes, one clock step at a time, while a stored time is ahead.    *)
(* A timer fires at or after its time, never before: a wait shorter than   *)
(* the clock step ends with the step.                                      *)
(***************************************************************************)
TickMs == 10000

Tick ==
    /\ \/ circuitBreakerResetTime >= Now
       \/ \E c \in Calls : wake[c] > Now
    /\ circuitBreakerResetTime' = elapse(circuitBreakerResetTime, TickMs)
    /\ wake' = [c \in Calls |-> IF wake[c] - TickMs > Now THEN wake[c] - TickMs ELSE Now]
    /\ UNCHANGED <<consecutiveFailures, circuitBreakerOpen, pc, attempt, invoked, err,
                   resp, decision, interactions, histVars>>

(***************************************************************************)
(* The steps of ingestMessage, and ingestMessage called on its own.        *)
(***************************************************************************)
IngestStep ==
    \/ \E c \in Calls : Begin(c)
    \/ \E c \in Calls, r \in Responses : OpResolve(c, r)
    \/ \E c \in Calls, s \in Statuses : OpReject(c, s)
    \/ \E c \in Calls : BackoffDone(c)
    \/ \E c \in Calls : IngestAfterCall(c)
    \/ \E c \in Calls, stored \in BOOLEAN : IngestRecorded(c, stored)
    \/ \E c \in Calls : IngestCatch(c)

Next ==
    \/ IngestStep /\ UNCHANGED <<pipeVars, cacheVars, bufferVars, memoryVars, handlerVars, restVars>>
    \/ \E c \in Calls : IngestReturn(c) /\ UNCHANGED <<pipeVars, cacheVars, bufferVars, memoryVars, handlerVars, restVars>>
    \/ Tick /\ UNCHANGED <<pipeVars, cacheVars, bufferVars, memoryVars, handlerVars, restVars>>

Spec == Init /\ [][Next]_vars

(***************************************************************************)
(* processMessage (src/src/pipeline/index.ts): after ingestMessage it      *)
(* starts formMemory and generateResponse and awaits both.  The branches   *)
(* are followed from one remote model call to the next; what they read and *)
(* write in the memory store and the entity cache in between is the        *)
(* subject of the sections on the store and the cache.                     *)
(***************************************************************************)
\* openai.ts:270   !shouldFormMemory || !memoryType returns null
formsMemory(d) == d.shouldFormMemory /\ d.hasType
\* response.ts:92-111  a mention or a DM is always answered
shouldBotRespond(mentioned, d) == mentioned \/ d.shouldRespond
\* memory.ts:62
indexable(dim) == dim = 1536
\* the lengths generateEmbedding may return: a full vector, or [] for a
\* missing or failed embedding (openai.ts:442-445)
EmbeddingDims == {1536, 0}

\* index.ts:35-52 up to the await of Promise.all: formMemory runs to its chat
\* completion (memory.ts:10-23, openai.ts:270-314), generateResponse to the
\* embedding of searchMemories (response.ts:19-34, memory.ts:98-99,
\* openai.ts:437)
Stage2(c, mentioned) ==
    /\ pc[c] = "ingested"
    /\ pc' = [pc EXCEPT ![c] = "join"]
    /\ mpc' = [mpc EXCEPT ![c] = IF formsMemory(decision[c]) THEN "chat" ELSE "done"]
    /\ rpc' = [rpc EXCEPT ![c] =
                 IF shouldBotRespond(mentioned, decision[c]) THEN "embed" ELSE "done"]
    /\ UNCHANGED <<breakerVars, attempt, wake, invoked, err, resp, decision,
                   interactions, histVars>>

\* the chat completion of openai.formMemory rejects, or resolves with content
\* that is missing or does not parse: the catch of openai.ts:356 returns null
\* and so does formMemory (memory.ts:25, 82)
MemChatFailed(c) ==
    /\ mpc[c] = "chat"
    /\ mpc' = [mpc EXCEPT ![c] = "failed"]
    /\ UNCHANGED <<breakerVars, callVars, histVars, rpc>>

\* the chat completion resolves with a memory: openai.ts:316-324 goes on to
\* generateEmbedding; usage is whether response.usage.total_tokens is truthy
MemChatResolved(c, usage) ==
    /\ mpc[c] = "chat"
    /\ mpc' = [mpc EXCEPT ![c] = IF usage THEN "embed-usage" ELSE "embed"]
    /\ UNCHANGED <<breakerVars, callVars, histVars, rpc>>

\* generateEmbedding returns a vector of dim numbers (openai.ts:435-447); then
\* openai.ts:326-347 records the interaction if there is usage, and
\* memory.ts:25-59 inserts the memory
MemEmbedded(c, dim) ==
    /\ mpc[c] \in {"embed", "embed-usage"}
    /\ mpc' = [mpc EXCEPT ![c] =
                 IF mpc[c] = "embed-usage"
                 THEN (IF indexable(dim) THEN "record-vec" ELSE "record")
                 ELSE (IF indexable(dim) THEN "insert-vec" ELSE "insert")]
    /\ UNCHANGED <<breakerVars, callVars, histVars, rpc>>

\* recordInteraction of openai.ts:339 is over; openai.formMemory returns the
\* memory and memory.ts:39 issues the INSERT INTO memories
MemRecorded(c, stored) ==
    /\ mpc[c] \in {"record", "record-vec"}
    /\ recordInteraction(c, "memory_formation", TRUE, stored)
    /\ mpc' = [mpc EXCEPT ![c] =
                 IF catchLedgerError(stored) # "resolved" THEN "failed"
                 ELSE IF mpc[c] = "record-vec" THEN "insert-vec" ELSE "insert"]
    /\ UNCHANGED <<breakerVars, pc, attempt, wake, invoked, err, resp, decision,
                   histVars, rpc>>

\* the INSERT INTO memories resolves (ok) or rejects: memory.ts:39-82.  A
\* rejection is logged by the catch of line 76, which skips the vector index;
\* the memory is returned either way
MemInserted(c, ok) ==
    /\ mpc[c] \in {"insert", "insert-vec"}
    /\ mpc' = [mpc EXCEPT ![c] = IF ok /\ mpc[c] = "insert-vec" THEN "vec" ELSE "done"]
    /\ UNCHANGED <<breakerVars, callVars, histVars, rpc>>

\* the INSERT INTO vec_memories resolves or rejects: memory.ts:63-82
MemIndexed(c) ==
    /\ mpc[c] = "vec"
    /\ mpc' = [mpc EXCEPT ![c] = "done"]
    /\ UNCHANGED <<breakerVars, callVars, histVars, rpc>>

\* the embedding of the query is back (memory.ts:99-104); searchMemories,
\* getChannelVibe and ensureUserExists follow (response.ts:34-65)
RespSearchEmbedded(c) ==
    /\ rpc[c] = "embed"
    /\ rpc' = [rpc EXCEPT ![c] = "context"]
    /\ UNCHANGED <<breakerVars, callVars, histVars, mpc>>

\* the context is gathered; none of its reads can throw past response.ts:65,
\* and openai.generateResponse issues responses.create (response.ts:76,
\* openai.ts:363-402)
RespContextDone(c) ==
    /\ rpc[c] = "context"
    /\ rpc' = [rpc EXCEPT ![c] = "respond"]
    /\ UNCHANGED <<breakerVars, callVars, histVars, mpc>>

\* responses.create resolves, with or without usage (openai.ts:404-428), or
\* rejects and the catch of openai.ts:429 returns null
RespResolved(c, usage) ==
    /\ rpc[c] = "respond"
    /\ rpc' = [rpc EXCEPT ![c] = IF usage THEN "record" ELSE "done"]
    /\ UNCHANGED <<breakerVars, callVars, histVars, mpc>>

RespRejected(c) ==
    /\ rpc[c] = "respond"
    /\ rpc' = [rpc EXCEPT ![c] = "failed"]
    /\ UNCHANGED <<breakerVars, callVars, histVars, mpc>>

\* recordInteraction of openai.ts:413 is over
RespRecorded(c, stored) ==
    /\ rpc[c] = "record"
    /\ recordInteraction(c, "response_generation", TRUE, stored)
    /\ rpc' = [rpc EXCEPT ![c] = IF catchLedgerError(stored) = "resolved" THEN "done" ELSE "failed"]
    /\ UNCHANGED <<breakerVars, pc, attempt, wake, invoked, err, resp, decision,
                   histVars, mpc>>

\* a branch is over, with a value or with the null its catch returns
settled(branch) == branch \in {"done", "failed"}

\* Promise.all([memoryPromise, responsePromise]) of two promises that never
\* reject resolves when both have
allSettled_either(memoryPromise, responsePromise) == settled(memoryPromise) \/ settled(responsePromise)
allSettled(memoryPromise, responsePromise) == settled(memoryPromise) /\ settled(responsePromise)

\* Promise.all resolves and processMessage returns: index.ts:52-66
Join(c) ==
    /\ pc[c] = "join"
    /\ allSettled(mpc[c], rpc[c])
    /\ pc' = [pc EXCEPT ![c] = "idle"]
    /\ mpc' = [mpc EXCEPT ![c] = "none"]
    /\ rpc' = [rpc EXCEPT ![c] = "none"]
    /\ invoked' = [invoked EXCEPT ![c] = 0]
    /\ err' = [err EXCEPT ![c] = NoError]
    /\ decision' = [decision EXCEPT ![c] = SafeDefault]
    /\ interactions' = [interactions EXCEPT ![c] = <<>>]
    /\ UNCHANGED <<breakerVars, attempt, wake, resp, histVars>>

(***************************************************************************)
(* processMessage, one run after the other: the breaker's state carries    *)
(* over from run to run, the two branches of a run interleave freely, and  *)
(* the history of a run tells which of its ledger writes failed.           *)
(***************************************************************************)
\* the ledger write of an operation is over: what failed is remembered
Recorded(operationType, stored) ==
    /\ lost' = IF stored THEN lost ELSE lost \cup {operationType}
    /\ UNCHANGED addressed

LedgerNext ==
    \/ Begin(1) /\ lost' = {} /\ addressed' = FALSE
                /\ UNCHANGED <<pipeVars, cacheVars, bufferVars, memoryVars, handlerVars, vecVars, profileVars>>
    \/ \E r \in Responses :
           OpResolve(1, r) /\ UNCHANGED <<pipeVars, cacheVars, bufferVars, memoryVars, handlerVars, restVars>>
    \/ \E s \in Statuses :
           OpReject(1, s) /\ UNCHANGED <<pipeVars, cacheVars, bufferVars, memoryVars, handlerVars, restVars>>
    \/ BackoffDone(1) /\ UNCHANGED <<pipeVars, cacheVars, bufferVars, memoryVars, handlerVars, restVars>>
    \/ IngestAfterCall(1) /\ UNCHANGED <<pipeVars, cacheVars, bufferVars, memoryVars, handlerVars, restVars>>
    \/ \E stored \in BOOLEAN :
           IngestRecorded(1, stored) /\ Recorded("ingestion", stored)
           /\ UNCHANGED <<pipeVars, cacheVars, bufferVars, memoryVars, handlerVars, vecVars, profileVars>>
    \/ IngestCatch(1) /\ UNCHANGED <<pipeVars, cacheVars, bufferVars, memoryVars, handlerVars, restVars>>
    \/ Tick /\ UNCHANGED <<pipeVars, cacheVars, bufferVars, memoryVars, handlerVars, restVars>>
    \/ \E mentioned \in BOOLEAN :
           Stage2(1, mentioned) /\ addressed' = mentioned
           /\ UNCHANGED <<cacheVars, bufferVars, memoryVars, handlerVars, lost, vecVars, profileVars>>
    \/ MemChatFailed(1) /\ UNCHANGED <<cacheVars, bufferVars, memoryVars, handlerVars, restVars>>
    \/ \E usage \in BOOLEAN :
           MemChatResolved(1, usage) /\ UNCHANGED <<cacheVars, bufferVars, memoryVars, handlerVars, restVars>>
    \/ \E dim \in EmbeddingDims :
           MemEmbedded(1, dim) /\ UNCHANGED <<cacheVars, bufferVars, memoryVars, handlerVars, restVars>>
    \/ \E stored \in BOOLEAN :
           MemRecorded(1, stored) /\ Recorded("memory_formation", stored)
           /\ UNCHANGED <<cacheVars, bufferVars, memoryVars, handlerVars, vecVars, profileVars>>
    \/ \E ok \in BOOLEAN :
           MemInserted(1, ok) /\ UNCHANGED <<cacheVars, bufferVars, memoryVars, handlerVars, restVars>>
    \/ MemIndexed(1) /\ UNCHANGED <<cacheVars, bufferVars, memoryVars, handlerVars, restVars>>
    \/ RespSearchEmbedded(1) /\ UNCHANGED <<cacheVars, bufferVars, memoryVars, handlerVars, restVars>>
    \/ RespContextDone(1) /\ UNCHANGED <<cacheVars, bufferVars, memoryVars, handlerVars, restVars>>
    \/ \E usage \in BOOLEAN :
           RespResolved(1, usage) /\ UNCHANGED <<cacheVars, bufferVars, memoryVars, handlerVars, restVars>>
    \/ RespRejected(1) /\ UNCHANGED <<cacheVars, bufferVars, memoryVars, handlerVars, restVars>>
    \/ \E stored \in BOOLEAN :
           RespRecorded(1, stored) /\ Recorded("response_generation", stored)
           /\ UNCHANGED <<cacheVars, bufferVars, memoryVars, handlerVars, vecVars, profileVars>>
    \/ Join(1) /\ UNCHANGED <<cacheVars, bufferVars, memoryVars, handlerVars, restVars>>

SpecLedger == Init /\ [][LedgerNext]_vars

(***************************************************************************)
(* The Redis substrate: the singleton, its connected flag and the server.  *)
(***************************************************************************)
\* redis.ts:278-287  the singleton is set before connect() resolves
initializeRedis ==
    /\ ~redisService
    /\ redisService' = TRUE
    /\ UNCHANGED <<connected, redisUp, cache, cachedFor, users, readerVars, writerVars>>

\* redis.ts:30-38  the client's connect and ready events
OnReady ==
    /\ redisService /\ redisUp /\ ~connected
    /\ connected' = TRUE
    /\ UNCHANGED <<redisService, redisUp, cache, cachedFor, users, readerVars, writerVars>>

\* redis.ts:25-28, 40-43  the client's error and reconnecting events
OnError ==
    /\ redisService /\ ~redisUp /\ connected
    /\ connected' = FALSE
    /\ UNCHANGED <<redisService, redisUp, cache, cachedFor, users, readerVars, writerVars>>

\* the server stops answering, and answers again; it keeps its keys
RedisFails ==
    /\ redisUp
    /\ redisUp' = FALSE
    /\ UNCHANGED <<redisService, connected, cache, cachedFor, users, readerVars, writerVars>>

RedisRecovers ==
    /\ ~redisUp
    /\ redisUp' = TRUE
    /\ UNCHANGED <<redisService, connected, cache, cachedFor, users, readerVars, writerVars>>

\* time passes for the key set by setEx (redis.ts:153): it is gone when its
\* TTL is used up
CacheTick ==
    /\ cache # NoEntry
    /\ cache' = IF cache.ttl > TtlStepS THEN [cache EXCEPT !.ttl = @ - TtlStepS] ELSE NoEntry
    /\ cachedFor' = Min(cachedFor + TtlStepS, ProfileTtlS)
    /\ UNCHANGED <<substrateVars, users, readerVars, writerVars>>

\* redis.ts:272-275 and the guard `if (!this.connected) return` of every
\* cache method: whether a command is sent to the server at all
sendsCommand(service, isConnected) == service /\ isConnected
\* a cache read that hands out the key's value even when the command fails
getCachedUserProfile_unchecked(up, entry) ==
    IF entry # NoEntry THEN parse(entry.value) ELSE NoProfile

\* redis.ts:163-174: the server's reply parsed, null when there is no key or
\* the command throws
getCachedUserProfile(up, entry) ==
    IF up /\ entry # NoEntry THEN parse(entry.value) ELSE NoProfile

\* a write whose key lives twice the time asked for
setEx_twice(seconds, text) == [value |-> text, ttl |-> 2 * seconds]

\* redis.ts:153  client.setEx(key, ttlSeconds, value): the key with its TTL
setEx(seconds, text) == [value |-> text, ttl |-> seconds]

\* the key was set and has outlived its TTL
expired == cache = NoEntry /\ cachedFor >= ProfileTtlS

\* the larger of two versions
Newer(a, b) == IF a >= b THEN a ELSE b

(***************************************************************************)
(* ensureUserExists (users.ts:37-112), one action per await.               *)
(***************************************************************************)
\* users.ts:40-42: getRedisService throws, or getCachedUserProfile returns
\* null without a command, or client.get is sent; with no command the SELECT
\* of users.ts:52 is next
GetStart(r) ==
    /\ gpc[r] = "idle"
    /\ gpc' = [gpc EXCEPT ![r] =
                 IF sendsCommand(redisService, connected) THEN "cache-get" ELSE "select"]
    /\ floor' = [floor EXCEPT ![r] = invalidated]
    /\ lookup' = [lookup EXCEPT ![r] =
                    IF sendsCommand(redisService, connected) THEN "sent" ELSE "skipped"]
    /\ profile' = [profile EXCEPT ![r] = NoProfile]
    /\ result' = [result EXCEPT ![r] = NoResult]
    /\ UNCHANGED <<substrateVars, cache, cachedFor, users, writerVars>>

\* users.ts:42-49: client.get answers or throws
CacheGetDone(r) ==
    /\ gpc[r] = "cache-get"
    /\ LET cached == getCachedUserProfile(redisUp, cache) IN
         IF cached # NoProfile
         THEN /\ gpc' = [gpc EXCEPT ![r] = "done"]
              /\ result' = [result EXCEPT ![r] = [kind |-> "hit", profile |-> cached]]
         ELSE /\ gpc' = [gpc EXCEPT ![r] = "select"]
              /\ UNCHANGED result
    /\ lookup' = [lookup EXCEPT ![r] =
                    IF ~redisUp THEN "failed"
                    ELSE IF cache # NoEntry THEN "hit"
                    ELSE IF expired THEN "expired" ELSE "absent"]
    /\ UNCHANGED <<substrateVars, cache, cachedFor, users, profile, floor, writerVars>>

\* users.ts:52-69, 72-92: the SELECT answers.  With a row, the profile is
\* cached (setEx is sent, or cacheUserProfile returns at once) and returned;
\* with none, the INSERT is sent
SelectDone(r) ==
    /\ gpc[r] = "select"
    /\ IF users # NoRow
       THEN /\ profile' = [profile EXCEPT ![r] = dbRowToUserProfile(users)]
            /\ IF sendsCommand(redisService, connected)
               THEN /\ gpc' = [gpc EXCEPT ![r] = "cache-set"]
                    /\ UNCHANGED result
               ELSE /\ gpc' = [gpc EXCEPT ![r] = "done"]
                    /\ result' = [result EXCEPT ![r] =
                                    [kind |-> "loaded", profile |-> dbRowToUserProfile(users)]]
       ELSE /\ gpc' = [gpc EXCEPT ![r] = "insert"]
            /\ UNCHANGED <<profile, result>>
    /\ UNCHANGED <<substrateVars, cache, cachedFor, users, floor, lookup, writerVars>>

\* redis.ts:148-158, users.ts:65-69: setEx is applied, or throws and is logged
CacheSetDone(r) ==
    /\ gpc[r] = "cache-set"
    /\ cache' = IF redisUp THEN setEx(ProfileTtlS, stringify(profile[r])) ELSE cache
    /\ cachedFor' = IF redisUp THEN 0 ELSE cachedFor
    /\ gpc' = [gpc EXCEPT ![r] = "done"]
    /\ result' = [result EXCEPT ![r] = [kind |-> "loaded", profile |-> profile[r]]]
    /\ UNCHANGED <<substrateVars, users, profile, floor, lookup, writerVars>>

\* users.ts:75-111: the INSERT is applied and the new profile returned, or the
\* row exists by now, slack_id is UNIQUE and the error is thrown on
InsertDone(r) ==
    /\ gpc[r] = "insert"
    /\ IF users = NoRow
       THEN /\ users' = FirstRow
            /\ result' = [result EXCEPT ![r] =
                            [kind |-> "created", profile |-> dbRowToUserProfile(FirstRow)]]
       ELSE /\ UNCHANGED users
            /\ result' = [result EXCEPT ![r] = [kind |-> "error", profile |-> NoProfile]]
    /\ gpc' = [gpc EXCEPT ![r] = "done"]
    /\ UNCHANGED <<substrateVars, cache, cachedFor, profile, floor, lookup, writerVars>>

\* the caller has the result
GetReturn(r) ==
    /\ gpc[r] = "done"
    /\ gpc' = [gpc EXCEPT ![r] = "idle"]
    /\ profile' = [profile EXCEPT ![r] = NoProfile]
    /\ result' = [result EXCEPT ![r] = NoResult]
    /\ floor' = [floor EXCEPT ![r] = NoRow]
    /\ lookup' = [lookup EXCEPT ![r] = "none"]
    /\ UNCHANGED <<substrateVars, cache, cachedFor, users, writerVars>>

(***************************************************************************)
(* updateUserActivity (users.ts:117-136) and invalidateCache               *)
(* (redis.ts:210-224), one action per await.                               *)
(***************************************************************************)
\* users.ts:119-122: the UPDATE is sent
WriteStart(w) ==
    /\ wpc[w] = "idle"
    /\ users < MaxVersion
    /\ wpc' = [wpc EXCEPT ![w] = "update"]
    /\ UNCHANGED <<substrateVars, cache, cachedFor, users, readerVars, wrote, invalidated>>

\* users.ts:119-130: the UPDATE is applied to the row, if there is one; then
\* invalidateCache sends keys(pattern), or returns 0 without a command
UpdateDone(w) ==
    /\ wpc[w] = "update"
    /\ LET row == IF users = NoRow THEN NoRow ELSE users + 1 IN
         /\ users' = row
         /\ wrote' = [wrote EXCEPT ![w] = row]
         /\ IF sendsCommand(redisService, connected)
            THEN /\ wpc' = [wpc EXCEPT ![w] = "keys"]
                 /\ UNCHANGED invalidated
            ELSE /\ wpc' = [wpc EXCEPT ![w] = "done"]
                 /\ invalidated' = Newer(invalidated, row)
    /\ UNCHANGED <<substrateVars, cache, cachedFor, readerVars>>

\* redis.ts:214-217: keys answers; with no key, or a throw, invalidateCache
\* returns 0, else del is sent
KeysDone(w) ==
    /\ wpc[w] = "keys"
    /\ IF redisUp /\ cache # NoEntry
       THEN /\ wpc' = [wpc EXCEPT ![w] = "del"]
            /\ UNCHANGED invalidated
       ELSE /\ wpc' = [wpc EXCEPT ![w] = "done"]
            /\ invalidated' = Newer(invalidated, wrote[w])
    /\ UNCHANGED <<substrateVars, cache, cachedFor, users, readerVars, wrote>>

\* redis.ts:217-223: del is applied, or throws; invalidateCache returns
DelDone(w) ==
    /\ wpc[w] = "del"
    /\ cache' = IF redisUp THEN NoEntry ELSE cache
    /\ cachedFor' = IF redisUp THEN 0 ELSE cachedFor
    /\ wpc' = [wpc EXCEPT ![w] = "done"]
    /\ invalidated' = Newer(invalidated, wrote[w])
    /\ UNCHANGED <<substrateVars, users, readerVars, wrote>>

\* users.ts:132
WriteReturn(w) ==
    /\ wpc[w] = "done"
    /\ wpc' = [wpc EXCEPT ![w] = "idle"]
    /\ wrote' = [wrote EXCEPT ![w] = NoRow]
    /\ UNCHANGED <<substrateVars, cache, cachedFor, users, readerVars, invalidated>>

CacheNext ==
    \/ initializeRedis /\ UNCHANGED <<serviceVars, bufferVars, memoryVars, handlerVars, restVars>>
    \/ OnReady /\ UNCHANGED <<serviceVars, bufferVars, memoryVars, handlerVars, restVars>>
    \/ OnError /\ UNCHANGED <<serviceVars, bufferVars, memoryVars, handlerVars, restVars>>
    \/ RedisFails /\ UNCHANGED <<serviceVars, bufferVars, memoryVars, handlerVars, restVars>>
    \/ RedisRecovers /\ UNCHANGED <<serviceVars, bufferVars, memoryVars, handlerVars, restVars>>
    \/ CacheTick /\ UNCHANGED <<serviceVars, bufferVars, memoryVars, handlerVars, restVars>>
    \/ \E r \in Readers : GetStart(r) /\ UNCHANGED <<serviceVars, bufferVars, memoryVars, handlerVars, restVars>>
    \/ \E r \in Readers : CacheGetDone(r) /\ UNCHANGED <<serviceVars, bufferVars, memoryVars, handlerVars, restVars>>
    \/ \E r \in Readers : SelectDone(r) /\ UNCHANGED <<serviceVars, bufferVars, memoryVars, handlerVars, restVars>>
    \/ \E r \in Readers : CacheSetDone(r) /\ UNCHANGED <<serviceVars, bufferVars, memoryVars, handlerVars, restVars>>
    \/ \E r \in Readers : InsertDone(r) /\ UNCHANGED <<serviceVars, bufferVars, memoryVars, handlerVars, restVars>>
    \/ \E r \in Readers : GetReturn(r) /\ UNCHANGED <<serviceVars, bufferVars, memoryVars, handlerVars, restVars>>
    \/ \E w \in Writers : WriteStart(w) /\ UNCHANGED <<serviceVars, bufferVars, memoryVars, handlerVars, restVars>>
    \/ \E w \in Writers : UpdateDone(w) /\ UNCHANGED <<serviceVars, bufferVars, memoryVars, handlerVars, restVars>>
    \/ \E w \in Writers : KeysDone(w) /\ UNCHANGED <<serviceVars, bufferVars, memoryVars, handlerVars, restVars>>
    \/ \E w \in Writers : DelDone(w) /\ UNCHANGED <<serviceVars, bufferVars, memoryVars, handlerVars, restVars>>
    \/ \E w \in Writers : WriteReturn(w) /\ UNCHANGED <<serviceVars, bufferVars, memoryVars, handlerVars, restVars>>

SpecCache == Init /\ [][CacheNext]_vars

(***************************************************************************)
(* bufferMessage (redis.ts:76-105), one action per await.                  *)
(***************************************************************************)
\* a catch that throws the error on to the caller
catchBufferError_rethrown == "raised"

\* redis.ts:101-104  the catch logs and does not throw
catchBufferError == "logged"

\* redis.ts:77-92: not connected, the call returns at once; else lPush is sent
BufferStart(a) ==
    /\ apc[a] = "idle"
    /\ appended < MaxAppends
    /\ appended' = appended + 1
    /\ IF connected
       THEN /\ apc' = [apc EXCEPT ![a] = "lpush"]
            /\ outcome' = [outcome EXCEPT ![a] = "none"]
       ELSE /\ apc' = [apc EXCEPT ![a] = "done"]
            /\ outcome' = [outcome EXCEPT ![a] = "skipped"]
    /\ UNCHANGED <<messages, msgTtl, pushed, qpc, limit, recent>>

\* redis.ts:92-95: lPush is applied (a list it creates has no expiration) and
\* lTrim is sent, or lPush throws
LPushDone(a) ==
    /\ apc[a] = "lpush"
    /\ IF redisUp
       THEN /\ messages' = lPush(messages, stringifyMessage(MessageContext(pushed + 1)))
            /\ pushed' = pushed + 1
            /\ msgTtl' = IF messages = <<>> THEN NoExpiry ELSE msgTtl
            /\ apc' = [apc EXCEPT ![a] = "ltrim"]
            /\ UNCHANGED outcome
       ELSE /\ apc' = [apc EXCEPT ![a] = "done"]
            /\ outcome' = [outcome EXCEPT ![a] = catchBufferError]
            /\ UNCHANGED <<messages, pushed, msgTtl>>
    /\ UNCHANGED <<appended, qpc, limit, recent>>

\* redis.ts:95-98: lTrim is applied and expire is sent, or lTrim throws
LTrimDone(a) ==
    /\ apc[a] = "ltrim"
    /\ IF redisUp
       THEN /\ messages' = lTrim(messages, 0, TrimStop)
            /\ apc' = [apc EXCEPT ![a] = "expire"]
            /\ UNCHANGED outcome
       ELSE /\ apc' = [apc EXCEPT ![a] = "done"]
            /\ outcome' = [outcome EXCEPT ![a] = catchBufferError]
            /\ UNCHANGED messages
    /\ UNCHANGED <<msgTtl, pushed, appended, qpc, limit, recent>>

\* redis.ts:98-100: expire is applied to the list, if there is one, and
\* getBufferSize sends lLen or, not connected, returns 0 (redis.ts:130-131);
\* or expire throws
ExpireDone(a) ==
    /\ apc[a] = "expire"
    /\ IF redisUp
       THEN /\ msgTtl' = IF messages = <<>> THEN msgTtl ELSE BufferTtlS
            /\ IF connected
               THEN /\ apc' = [apc EXCEPT ![a] = "llen"]
                    /\ UNCHANGED outcome
               ELSE /\ apc' = [apc EXCEPT ![a] = "done"]
                    /\ outcome' = [outcome EXCEPT ![a] = "buffered"]
       ELSE /\ apc' = [apc EXCEPT ![a] = "done"]
            /\ outcome' = [outcome EXCEPT ![a] = catchBufferError]
            /\ UNCHANGED msgTtl
    /\ UNCHANGED <<messages, pushed, appended, qpc, limit, recent>>

\* redis.ts:100, 133-138: lLen answers, or throws and getBufferSize returns 0;
\* the size is logged
LLenDone(a) ==
    /\ apc[a] = "llen"
    /\ apc' = [apc EXCEPT ![a] = "done"]
    /\ outcome' = [outcome EXCEPT ![a] = "buffered"]
    /\ UNCHANGED <<messages, msgTtl, pushed, appended, qpc, limit, recent>>

\* the caller goes on
BufferReturn(a) ==
    /\ apc[a] = "done"
    /\ apc' = [apc EXCEPT ![a] = "idle"]
    /\ outcome' = [outcome EXCEPT ![a] = "none"]
    /\ UNCHANGED <<messages, msgTtl, pushed, appended, qpc, limit, recent>>

\* time passes for a list that has an expiration: it is gone when the time is
\* used up
BufferTick ==
    /\ messages # <<>>
    /\ msgTtl # NoExpiry
    /\ IF msgTtl > BufferTtlStepS
       THEN /\ msgTtl' = msgTtl - BufferTtlStepS
            /\ UNCHANGED messages
       ELSE /\ msgTtl' = NoTtl
            /\ messages' = <<>>
    /\ UNCHANGED <<pushed, appended, apc, outcome, qpc, limit, recent>>

(***************************************************************************)
(* getRecentMessages (redis.ts:110-125).                                   *)
(***************************************************************************)
\* redis.ts:111-118: not connected, [] is returned; else lRange is sent
RecentStart(q, lim) ==
    /\ qpc[q] = "idle"
    /\ limit' = [limit EXCEPT ![q] = lim]
    /\ recent' = [recent EXCEPT ![q] = <<>>]
    /\ qpc' = [qpc EXCEPT ![q] = IF connected THEN "lrange" ELSE "done"]
    /\ UNCHANGED <<messages, msgTtl, pushed, appended, apc, outcome>>

\* redis.ts:118-124: lRange(key, 0, limit - 1) answers and every entry is
\* parsed, or it throws and [] is returned
LRangeDone(q) ==
    /\ qpc[q] = "lrange"
    /\ recent' = [recent EXCEPT ![q] =
                    IF redisUp
                    THEN LET range == lRange(messages, 0, limit[q] - 1)
                         IN  [i \in 1..Len(range) |-> parseMessage(range[i])]
                    ELSE <<>>]
    /\ qpc' = [qpc EXCEPT ![q] = "done"]
    /\ UNCHANGED <<messages, msgTtl, pushed, appended, apc, outcome, limit>>

\* the caller has the messages
RecentReturn(q) ==
    /\ qpc[q] = "done"
    /\ qpc' = [qpc EXCEPT ![q] = "idle"]
    /\ recent' = [recent EXCEPT ![q] = <<>>]
    /\ limit' = [limit EXCEPT ![q] = DefaultLimit]
    /\ UNCHANGED <<messages, msgTtl, pushed, appended, apc, outcome>>

BufferNext ==
    \/ initializeRedis /\ UNCHANGED <<serviceVars, bufferVars, memoryVars, handlerVars, restVars>>
    \/ OnReady /\ UNCHANGED <<serviceVars, bufferVars, memoryVars, handlerVars, restVars>>
    \/ OnError /\ UNCHANGED <<serviceVars, bufferVars, memoryVars, handlerVars, restVars>>
    \/ RedisFails /\ UNCHANGED <<serviceVars, bufferVars, memoryVars, handlerVars, restVars>>
    \/ RedisRecovers /\ UNCHANGED <<serviceVars, bufferVars, memoryVars, handlerVars, restVars>>
    \/ BufferTick /\ UNCHANGED <<serviceVars, cacheVars, memoryVars, handlerVars, restVars>>
    \/ \E a \in Appenders : BufferStart(a) /\ UNCHANGED <<serviceVars, cacheVars, memoryVars, handlerVars, restVars>>
    \/ \E a \in Appenders : LPushDone(a) /\ UNCHANGED <<serviceVars, cacheVars, memoryVars, handlerVars, restVars>>
    \/ \E a \in Appenders : LTrimDone(a) /\ UNCHANGED <<serviceVars, cacheVars, memoryVars, handlerVars, restVars>>
    \/ \E a \in Appenders : ExpireDone(a) /\ UNCHANGED <<serviceVars, cacheVars, memoryVars, handlerVars, restVars>>
    \/ \E a \in Appenders : LLenDone(a) /\ UNCHANGED <<serviceVars, cacheVars, memoryVars, handlerVars, restVars>>
    \/ \E a \in Appenders : BufferReturn(a) /\ UNCHANGED <<serviceVars, cacheVars, memoryVars, handlerVars, restVars>>
    \/ \E q \in Queries, lim \in Limits : RecentStart(q, lim) /\ UNCHANGED <<serviceVars, cacheVars, memoryVars, handlerVars, restVars>>
    \/ \E q \in Queries : LRangeDone(q) /\ UNCHANGED <<serviceVars, cacheVars, memoryVars, handlerVars, restVars>>
    \/ \E q \in Queries : RecentReturn(q) /\ UNCHANGED <<serviceVars, cacheVars, memoryVars, handlerVars, restVars>>

\* the process starts on a list that earlier runs may have filled
BufferInit ==
    /\ ProcessInit /\ BufferIdle /\ StoreEmpty /\ EnvironmentUnset /\ HandlerHolds(0) /\ SearchIdle /\ ProfileIdle
    /\ \E n \in Prefilled : BufferHolds(n)

SpecBuffer == BufferInit /\ [][BufferNext]_vars

(***************************************************************************)
(* formMemory (pipeline/memory.ts:6-87) as processMessage runs it          *)
(* (pipeline/index.ts:35-58), one action per stretch between two awaits.   *)
(* runQuery rejects when the statement fails: by a CHECK of the schema or  *)
(* because the database does (ok = FALSE).                                 *)
(***************************************************************************)
FormStart(f, warranted, significance) ==
    /\ fpc[f] = "idle"
    /\ created < MaxMemories
    /\ IF warranted
       THEN /\ fpc' = [fpc EXCEPT ![f] = "chat"]
            /\ memory' = [memory EXCEPT ![f] = [NoMemory EXCEPT !.significance = significance]]
            /\ UNCHANGED memoryFormed
       ELSE /\ fpc' = [fpc EXCEPT ![f] = "done"]
            /\ memoryFormed' = [memoryFormed EXCEPT ![f] = FALSE]
            /\ UNCHANGED memory
    /\ saved' = [saved EXCEPT ![f] = FALSE]
    /\ UNCHANGED <<storeVars, memoryId, expiresAt, createdAt, MEMORY_EXPIRATION_DAYS,
                   searcherVars, selected, removed, callerVars>>

\* openai.formMemory came back: null, or a memory with its embedding; the
\* uuid and the expiration are fixed before the INSERT is sent.  With a
\* window that is NaN the date is invalid, toISOString throws while the
\* arguments of the INSERT are built, and the inner catch logs it.
FormChatDone(f, formed, dim, text) ==
    /\ fpc[f] = "chat"
    /\ IF formed
       THEN /\ memory' = [memory EXCEPT ![f].dims = dim, ![f].text = text]
            /\ created' = created + 1
            /\ memoryId' = [memoryId EXCEPT ![f] = created + 1]
            /\ IF expirationDays(MEMORY_EXPIRATION_DAYS).isNaN
               THEN /\ fpc' = [fpc EXCEPT ![f] = "done"]
                    /\ memoryFormed' = [memoryFormed EXCEPT ![f] = TRUE]
                    /\ UNCHANGED <<expiresAt, createdAt>>
               ELSE /\ fpc' = [fpc EXCEPT ![f] = "insert"]
                    /\ expiresAt' = [expiresAt EXCEPT ![f] =
                           addDays(clock, expirationDays(MEMORY_EXPIRATION_DAYS).value)]
                    /\ createdAt' = [createdAt EXCEPT ![f] = clock]
                    /\ UNCHANGED memoryFormed
       ELSE /\ fpc' = [fpc EXCEPT ![f] = "done"]
            /\ memoryFormed' = [memoryFormed EXCEPT ![f] = FALSE]
            /\ UNCHANGED <<memory, created, memoryId, expiresAt, createdAt>>
    /\ UNCHANGED <<clock, memories, vec_memories, searches, saved, MEMORY_EXPIRATION_DAYS,
                   searcherVars, selected, removed, callerVars>>

\* INSERT INTO memories; a rejection is caught and logged and the memory is
\* returned all the same, so processMessage reports !!memory
FormInsertDone(f, ok) ==
    /\ fpc[f] = "insert"
    /\ IF ok /\ checkSignificance(memory[f].significance) /\ users # NoRow
       THEN /\ memories' = [memories EXCEPT ![memoryId[f]] = Record(memory[f], expiresAt[f])]
            /\ saved' = [saved EXCEPT ![f] = TRUE]
            /\ IF indexable(memory[f].dims)
               THEN /\ fpc' = [fpc EXCEPT ![f] = "index"]
                    /\ UNCHANGED memoryFormed
               ELSE /\ fpc' = [fpc EXCEPT ![f] = "done"]
                    /\ memoryFormed' = [memoryFormed EXCEPT ![f] = TRUE]
       ELSE /\ fpc' = [fpc EXCEPT ![f] = "done"]
            /\ memoryFormed' = [memoryFormed EXCEPT ![f] = TRUE]
            /\ UNCHANGED <<memories, saved>>
    /\ UNCHANGED <<clock, vec_memories, created, searches, memory, memoryId, expiresAt,
                   createdAt, MEMORY_EXPIRATION_DAYS, searcherVars, selected, removed, callerVars>>

\* INSERT INTO vec_memories
FormIndexDone(f, ok) ==
    /\ fpc[f] = "index"
    /\ vec_memories' = IF ok THEN vec_memories \cup {memoryId[f]} ELSE vec_memories
    /\ fpc' = [fpc EXCEPT ![f] = "done"]
    /\ memoryFormed' = [memoryFormed EXCEPT ![f] = TRUE]
    /\ UNCHANGED <<clock, memories, created, searches, memory, memoryId, expiresAt, saved,
                   createdAt, MEMORY_EXPIRATION_DAYS, searcherVars, selected, removed, callerVars>>

FormReturn(f) ==
    /\ fpc[f] = "done"
    /\ fpc' = [fpc EXCEPT ![f] = "idle"]
    /\ memory' = [memory EXCEPT ![f] = NoMemory]
    /\ memoryId' = [memoryId EXCEPT ![f] = 0]
    /\ expiresAt' = [expiresAt EXCEPT ![f] = StartOfTime]
    /\ createdAt' = [createdAt EXCEPT ![f] = StartOfTime]
    /\ saved' = [saved EXCEPT ![f] = FALSE]
    /\ memoryFormed' = [memoryFormed EXCEPT ![f] = FALSE]
    /\ UNCHANGED <<storeVars, MEMORY_EXPIRATION_DAYS, searcherVars, selected, removed, callerVars>>

(***************************************************************************)
(* searchMemories (pipeline/memory.ts:89-169).                             *)
(***************************************************************************)
\* expires_at IS NULL OR expires_at > datetime('now')
unexpired(row, now) == row.kept /\ textLess(datetime(now), row.expires_at)

\* expires_at IS NOT NULL AND expires_at < datetime("now")
expiredRow(row, now) == row.kept /\ textLess(row.expires_at, datetime(now))

\* FROM vec_memories vec JOIN memories m ... WHERE the row has not expired
Matching == {id \in vec_memories : unexpired(memories[id], clock)}

\* what the catch of a read lets out to the caller: it returns []
catchStoreError_rethrown(call) == {call}
catchStoreError(call) == {}

\* vec.embedding MATCH ? ... ORDER BY vec.distance ASC LIMIT ?: the vec0 scan
\* hands out `count` of the indexed vectors, whichever are nearest to the
\* query, and the JOIN and the WHERE clause keep the matching rows of these
Nearest(count) ==
    {scan \cap Matching : scan \in
        {rows \in SUBSET vec_memories :
            Cardinality(rows) = Min(count, Cardinality(vec_memories))}}

\* SET reference_count = reference_count + 1
incrementReference_twice(row) == [row EXCEPT !.reference_count = @ + 2]
incrementReference_back(row) == [row EXCEPT !.reference_count = @ - 1]
incrementReference(row) == [row EXCEPT !.reference_count = @ + 1]

SearchStart(s, count) ==
    /\ spc[s] = "idle"
    /\ searches < MaxSearches
    /\ searches' = searches + 1
    /\ spc' = [spc EXCEPT ![s] = "embed"]
    /\ searchLimit' = [searchLimit EXCEPT ![s] = count]
    /\ UNCHANGED <<clock, memories, vec_memories, created, formerVars, results, found,
                   selected, removed, callerVars>>

\* generateEmbedding came back; without 1536 numbers the search is over
SearchEmbedded(s, dim) ==
    /\ spc[s] = "embed"
    /\ IF indexable(dim)
       THEN /\ spc' = [spc EXCEPT ![s] = "select"]
            /\ UNCHANGED found
       ELSE /\ spc' = [spc EXCEPT ![s] = "done"]
            /\ found' = [found EXCEPT ![s] = {}]
    /\ UNCHANGED <<storeVars, formerVars, searchLimit, results, selected, removed, callerVars>>

SearchSelected(s, ok, rows) ==
    /\ spc[s] = "select"
    /\ IF ok /\ rows # {}
       THEN /\ spc' = [spc EXCEPT ![s] = "update"]
            /\ results' = [results EXCEPT ![s] = rows]
            /\ UNCHANGED found
       ELSE /\ spc' = [spc EXCEPT ![s] = "done"]
            /\ found' = [found EXCEPT ![s] = {}]
            /\ UNCHANGED results
    /\ escaped' = IF ok THEN escaped ELSE escaped \cup catchStoreError("searchMemories")
    /\ UNCHANGED <<storeVars, formerVars, searchLimit, selected, removed, dpc>>

\* UPDATE memories ... WHERE id IN (the rows selected), one statement
SearchUpdated(s, ok) ==
    /\ spc[s] = "update"
    /\ IF ok
       THEN /\ memories' = [id \in Ids |->
                               IF id \in results[s] /\ memories[id].kept
                               THEN incrementReference(memories[id]) ELSE memories[id]]
            /\ found' = [found EXCEPT ![s] = results[s]]
       ELSE /\ found' = [found EXCEPT ![s] = {}]
            /\ UNCHANGED memories
    /\ spc' = [spc EXCEPT ![s] = "done"]
    /\ escaped' = IF ok THEN escaped ELSE escaped \cup catchStoreError("searchMemories")
    /\ UNCHANGED <<clock, vec_memories, created, searches, formerVars, searchLimit, results,
                   selected, removed, dpc>>

SearchReturn(s) ==
    /\ spc[s] = "done"
    /\ spc' = [spc EXCEPT ![s] = "idle"]
    /\ searchLimit' = [searchLimit EXCEPT ![s] = 0]
    /\ results' = [results EXCEPT ![s] = {}]
    /\ found' = [found EXCEPT ![s] = {}]
    /\ UNCHANGED <<storeVars, formerVars, selected, removed, callerVars>>

(***************************************************************************)
(* getRecentMemories (pipeline/memory.ts:171-211): one SELECT; fewer rows  *)
(* than its limit exist.  cleanupExpiredMemories (database/connection):    *)
(* one DELETE, whose rejection the caller gets.                            *)
(***************************************************************************)
getRecentMemories(ok) ==
    /\ selected' = IF ok THEN {id \in Ids : unexpired(memories[id], clock)} ELSE {}
    /\ escaped' = IF ok THEN escaped ELSE escaped \cup catchStoreError("getRecentMemories")
    /\ UNCHANGED <<storeVars, formerVars, searcherVars, removed, dpc>>

cleanupExpiredMemories(ok) ==
    /\ removed = NoCount
    /\ IF ok
       THEN /\ memories' = [id \in Ids |->
                               IF expiredRow(memories[id], clock) THEN NoRecord ELSE memories[id]]
            /\ removed' = Cardinality({id \in Ids : expiredRow(memories[id], clock)})
       ELSE /\ removed' = Raised
            /\ UNCHANGED memories
    /\ UNCHANGED <<clock, vec_memories, created, searches, formerVars, searcherVars, selected, callerVars>>

CleanupReturn ==
    /\ removed # NoCount
    /\ removed' = NoCount
    /\ UNCHANGED <<storeVars, formerVars, searcherVars, selected, callerVars>>

\* the clock goes on by a second, over midnight when the day is used up, or
\* by a day
MemoryTick ==
    /\ \/ clock.time < LastSecond /\ clock' = [clock EXCEPT !.time = @ + 1]
       \/ clock.time = LastSecond /\ clock.date < MaxDate
          /\ clock' = [date |-> clock.date + 1, time |-> 0]
       \/ clock.date < MaxDate /\ clock' = addDays(clock, 1)
    /\ UNCHANGED <<memories, vec_memories, created, searches, formerVars, searcherVars,
                   selected, removed, callerVars>>

(***************************************************************************)
(* The users row the memories refer to (memories.user_id REFERENCES        *)
(* users(slack_id) ON DELETE SET NULL, foreign keys on) and deleteUserData *)
(* (services/users.ts:222-243): DELETE FROM users, then DELETE FROM        *)
(* memories WHERE user_id = ?, then the cache invalidation, whose failure  *)
(* is swallowed.  One user.                                                *)
(***************************************************************************)
UserInserted ==
    /\ users = NoRow
    /\ users' = FirstRow
    /\ UNCHANGED <<substrateVars, cache, cachedFor, readerVars, writerVars, memoryVars>>

\* ON DELETE SET NULL
setNull(row) == IF row.kept THEN [row EXCEPT !.user_id = Null] ELSE row

DeleteStart ==
    /\ dpc = "idle"
    /\ dpc' = "users"
    /\ UNCHANGED <<cacheVars, storeVars, formerVars, searcherVars, selected, removed, escaped>>

UsersDeleted(ok) ==
    /\ dpc = "users"
    /\ IF ok
       THEN /\ users' = NoRow
            /\ memories' = [id \in Ids |-> IF users # NoRow THEN setNull(memories[id]) ELSE memories[id]]
            /\ dpc' = "memories"
       ELSE /\ dpc' = "raised"
            /\ UNCHANGED <<users, memories>>
    /\ UNCHANGED <<substrateVars, cache, cachedFor, readerVars, writerVars>>
    /\ UNCHANGED <<clock, vec_memories, created, searches, formerVars, searcherVars, selected,
                   removed, escaped>>

MemoriesDeleted(ok) ==
    /\ dpc = "memories"
    /\ IF ok
       THEN /\ memories' = [id \in Ids |->
                               IF memories[id].kept /\ memories[id].user_id = User
                               THEN NoRecord ELSE memories[id]]
            /\ dpc' = "done"
       ELSE /\ dpc' = "raised"
            /\ UNCHANGED memories
    /\ UNCHANGED <<cacheVars, clock, vec_memories, created, searches, formerVars, searcherVars,
                   selected, removed, escaped>>

DeleteReturn ==
    /\ dpc \in {"done", "raised"}
    /\ dpc' = "idle"
    /\ UNCHANGED <<cacheVars, storeVars, formerVars, searcherVars, selected, removed, escaped>>

MemoryNext ==
    \/ \E f \in Formers, warranted \in BOOLEAN, significance \in Significances :
           FormStart(f, warranted, significance) /\ UNCHANGED <<serviceVars, cacheVars, bufferVars, handlerVars, restVars>>
    \/ \E f \in Formers, formed \in BOOLEAN, dim \in EmbeddingDims, text \in SearchableTexts :
           FormChatDone(f, formed, dim, text) /\ UNCHANGED <<serviceVars, cacheVars, bufferVars, handlerVars, restVars>>
    \/ \E f \in Formers, ok \in BOOLEAN :
           FormInsertDone(f, ok) /\ UNCHANGED <<serviceVars, cacheVars, bufferVars, handlerVars, restVars>>
    \/ \E f \in Formers, ok \in BOOLEAN :
           FormIndexDone(f, ok) /\ UNCHANGED <<serviceVars, cacheVars, bufferVars, handlerVars, restVars>>
    \/ \E f \in Formers : FormReturn(f) /\ UNCHANGED <<serviceVars, cacheVars, bufferVars, handlerVars, restVars>>
    \/ \E s \in Searchers, count \in SearchLimits :
           SearchStart(s, count) /\ UNCHANGED <<serviceVars, cacheVars, bufferVars, handlerVars, restVars>>
    \/ \E s \in Searchers, dim \in EmbeddingDims :
           SearchEmbedded(s, dim) /\ UNCHANGED <<serviceVars, cacheVars, bufferVars, handlerVars, restVars>>
    \/ \E s \in Searchers, ok \in BOOLEAN : \E rows \in Nearest(searchLimit[s]) :
           SearchSelected(s, ok, rows) /\ UNCHANGED <<serviceVars, cacheVars, bufferVars, handlerVars, restVars>>
    \/ \E s \in Searchers, ok \in BOOLEAN :
           SearchUpdated(s, ok) /\ UNCHANGED <<serviceVars, cacheVars, bufferVars, handlerVars, restVars>>
    \/ \E s \in Searchers : SearchReturn(s) /\ UNCHANGED <<serviceVars, cacheVars, bufferVars, handlerVars, restVars>>
    \/ \E ok \in BOOLEAN : getRecentMemories(ok) /\ UNCHANGED <<serviceVars, cacheVars, bufferVars, handlerVars, restVars>>
    \/ \E ok \in BOOLEAN : cleanupExpiredMemories(ok) /\ UNCHANGED <<serviceVars, cacheVars, bufferVars, handlerVars, restVars>>
    \/ CleanupReturn /\ UNCHANGED <<serviceVars, cacheVars, bufferVars, handlerVars, restVars>>
    \/ MemoryTick /\ UNCHANGED <<serviceVars, cacheVars, bufferVars, handlerVars, restVars>>
    \/ UserInserted /\ UNCHANGED <<serviceVars, bufferVars, handlerVars, restVars>>

SpecMemory == Init /\ [][MemoryNext]_vars

\* formMemory next to deleteUserData
ErasureNext ==
    \/ \E f \in Formers, warranted \in BOOLEAN, significance \in Significances :
           FormStart(f, warranted, significance) /\ UNCHANGED <<serviceVars, cacheVars, bufferVars, handlerVars, restVars>>
    \/ \E f \in Formers, formed \in BOOLEAN, dim \in EmbeddingDims, text \in SearchableTexts :
           FormChatDone(f, formed, dim, text) /\ UNCHANGED <<serviceVars, cacheVars, bufferVars, handlerVars, restVars>>
    \/ \E f \in Formers, ok \in BOOLEAN :
           FormInsertDone(f, ok) /\ UNCHANGED <<serviceVars, cacheVars, bufferVars, handlerVars, restVars>>
    \/ \E f \in Formers, ok \in BOOLEAN :
           FormIndexDone(f, ok) /\ UNCHANGED <<serviceVars, cacheVars, bufferVars, handlerVars, restVars>>
    \/ \E f \in Formers : FormReturn(f) /\ UNCHANGED <<serviceVars, cacheVars, bufferVars, handlerVars, restVars>>
    \/ UserInserted /\ UNCHANGED <<serviceVars, bufferVars, handlerVars, restVars>>
    \/ DeleteStart /\ UNCHANGED <<serviceVars, bufferVars, handlerVars, restVars>>
    \/ \E ok \in BOOLEAN : UsersDeleted(ok) /\ UNCHANGED <<serviceVars, bufferVars, handlerVars, restVars>>
    \/ \E ok \in BOOLEAN : MemoriesDeleted(ok) /\ UNCHANGED <<serviceVars, bufferVars, handlerVars, restVars>>
    \/ DeleteReturn /\ UNCHANGED <<serviceVars, bufferVars, handlerVars, restVars>>

SpecErasure == Init /\ [][ErasureNext]_vars

\* formMemory under each setting of MEMORY_EXPIRATION_DAYS
RetentionInit ==
    /\ ProcessInit /\ BufferIdle /\ BufferHolds(0) /\ StoreEmpty /\ HandlerHolds(0) /\ SearchIdle /\ ProfileIdle
    /\ MEMORY_EXPIRATION_DAYS \in Environments

RetentionNext ==
    \/ \E f \in Formers, warranted \in BOOLEAN, significance \in Significances :
           FormStart(f, warranted, significance) /\ UNCHANGED <<serviceVars, cacheVars, bufferVars, handlerVars, restVars>>
    \/ \E f \in Formers, formed \in BOOLEAN, dim \in EmbeddingDims, text \in SearchableTexts :
           FormChatDone(f, formed, dim, text) /\ UNCHANGED <<serviceVars, cacheVars, bufferVars, handlerVars, restVars>>
    \/ \E f \in Formers, ok \in BOOLEAN :
           FormInsertDone(f, ok) /\ UNCHANGED <<serviceVars, cacheVars, bufferVars, handlerVars, restVars>>
    \/ \E f \in Formers, ok \in BOOLEAN :
           FormIndexDone(f, ok) /\ UNCHANGED <<serviceVars, cacheVars, bufferVars, handlerVars, restVars>>
    \/ \E f \in Formers : FormReturn(f) /\ UNCHANGED <<serviceVars, cacheVars, bufferVars, handlerVars, restVars>>
    \/ UserInserted /\ UNCHANGED <<serviceVars, bufferVars, handlerVars, restVars>>
    \/ MemoryTick /\ UNCHANGED <<serviceVars, cacheVars, bufferVars, handlerVars, restVars>>

SpecRetention == RetentionInit /\ [][RetentionNext]_vars

(***************************************************************************)
(* The SELECT of searchMemories over given tables.                         *)
(***************************************************************************)
\* a memory with its vector in the index
IndexedRow(channel, expiry) ==
    [kept |-> TRUE, channel_id |-> channel, expires_at |-> toISOString(expiry)]
IndexedRows ==
    {IndexedRow(channel, addDays(StartOfTime, days)) : channel \in SearchChannels, days \in {-1, 1}}

\* vec.distance
distance(id) == id
\* a scan that hands out every indexed vector
knn_all(table, k) == DOMAIN table
\* vec.embedding MATCH ? ... LIMIT k: the k nearest of all the indexed vectors
knn(table, k) ==
    {id \in DOMAIN table : Cardinality({other \in DOMAIN table : distance(other) < distance(id)}) < k}
\* AND (m.expires_at IS NULL OR m.expires_at > datetime('now')) AND m.channel_id = ?
where(row, now, channelId) == unexpired(row, now) /\ row.channel_id = channelId
\* ORDER BY vec.distance ASC
RECURSIVE orderByDistance(_)
orderByDistance(ids) ==
    IF ids = {} THEN <<>>
    ELSE LET nearest == CHOOSE id \in ids : \A other \in ids : distance(id) <= distance(other)
         IN  <<nearest>> \o orderByDistance(ids \ {nearest})
\* LIMIT ?
limitTo(rows, k) == SubSeq(rows, 1, Min(k, Len(rows)))
\* the whole statement of memory.ts:108-134
searchQuery(table, now, channelId, k) ==
    limitTo(orderByDistance({id \in knn(table, k) : where(table[id], now, channelId)}), k)

\* allQuery resolves with the rows, or rejects and the catch returns []
SearchSelect(ok) ==
    /\ vpc = "idle"
    /\ vpc' = "done"
    /\ vecOk' = ok
    /\ vecRows' = IF ok THEN searchQuery(vecTable, clock, vecChannel, vecLimit) ELSE <<>>
    /\ UNCHANGED <<vecTable, vecChannel, vecLimit>>

\* searchMemories has returned
SearchSelectReturn ==
    /\ vpc = "done"
    /\ vpc' = "idle"
    /\ vecOk' = FALSE
    /\ vecRows' = <<>>
    /\ UNCHANGED <<vecTable, vecChannel, vecLimit>>

SearchNext ==
    \/ \E ok \in BOOLEAN :
           SearchSelect(ok)
           /\ UNCHANGED <<serviceVars, cacheVars, bufferVars, memoryVars, handlerVars, ledgerVars, profileVars>>
    \/ SearchSelectReturn
           /\ UNCHANGED <<serviceVars, cacheVars, bufferVars, memoryVars, handlerVars, ledgerVars, profileVars>>

SearchInit ==
    /\ ProcessInit /\ BufferIdle /\ BufferHolds(0) /\ StoreEmpty /\ EnvironmentUnset /\ HandlerHolds(0) /\ ProfileIdle
    /\ vecTable \in [Indexed -> IndexedRows]
    /\ vecChannel \in SearchChannels
    /\ vecLimit \in KnnLimits
    /\ vpc = "idle"
    /\ vecOk = FALSE
    /\ vecRows = <<>>

SpecSearch == SearchInit /\ [][SearchNext]_vars

(***************************************************************************)
(* app.message (src/index.ts:143-323).  The handler runs without an await  *)
(* from its entry to the first of: auth.test (when the bot's id is not     *)
(* known yet), the say of the activation branches, the calls of the reply  *)
(* path.  What follows line 228 (facts, channel history, the organic       *)
(* judgement, the response and its say) reads and writes none of the three *)
(* module-level values and is one step here.                               *)
(***************************************************************************)
otherHandlerVars == <<deliveries, oldest, newest>>

\* lines 164-228, entered with the bot's id known
Deduplicate(h, m, bot) ==
    LET id == messageId(m)
        text == m.text
        textLower == trim(toLowerCase(text))
        isDM == startsWith(m.channel, <<"D">>)
        isMention == includes(text, mention(bot))
        isActive == m.channel \in activeChannels
    IN  IF m.user = bot \/ has(processedMessages, id)
        THEN /\ hpc' = [hpc EXCEPT ![h] = "idle"]
             /\ msg' = [msg EXCEPT ![h] = NoMessage]
             /\ skipped' = IF m.user = bot THEN skipped ELSE skipped \cup {id}
             /\ UNCHANGED <<processedMessages, activeChannels, passed>>
        ELSE /\ processedMessages' = cleanup(Append(processedMessages, id))
             /\ passed' = Append(passed, id)
             /\ UNCHANGED skipped
             /\ IF (isMention \/ isDM) /\ includes(textLower, <<"a", "c", "t", "i", "v", "a", "t", "e">>)
                THEN /\ activeChannels' = activeChannels \cup {m.channel}
                     /\ hpc' = [hpc EXCEPT ![h] = "say"]
                     /\ msg' = [msg EXCEPT ![h] = m]
                ELSE IF (isMention \/ isDM)
                        /\ includes(textLower, <<"d", "e", "a", "c", "t", "i", "v", "a", "t", "e">>)
                THEN /\ activeChannels' = activeChannels \ {m.channel}
                     /\ hpc' = [hpc EXCEPT ![h] = "say"]
                     /\ msg' = [msg EXCEPT ![h] = m]
                ELSE /\ UNCHANGED activeChannels
                     /\ IF isDM \/ isMention \/ isActive
                        THEN /\ hpc' = [hpc EXCEPT ![h] = "respond"]
                             /\ msg' = [msg EXCEPT ![h] = m]
                        ELSE /\ hpc' = [hpc EXCEPT ![h] = "idle"]
                             /\ msg' = [msg EXCEPT ![h] = NoMessage]

\* lines 143-157: the entry, to the return of a bot message, to auth.test, or on
Entered(h, m) ==
    IF m.subtype
    THEN UNCHANGED <<botUserId, processedMessages, activeChannels, hpc, msg, passed, skipped>>
    ELSE IF botUserId = Null
    THEN /\ hpc' = [hpc EXCEPT ![h] = "auth"]
         /\ msg' = [msg EXCEPT ![h] = m]
         /\ UNCHANGED <<botUserId, processedMessages, activeChannels, passed, skipped>>
    ELSE /\ Deduplicate(h, m, botUserId)
         /\ UNCHANGED botUserId

\* Slack delivers the event of a new message
Deliver(h, channel, sender, text) ==
    LET m == Message(channel, newest.ts + 1, sender[1], sender[2], text)
    IN  /\ hpc[h] = "idle"
        /\ deliveries < MaxDeliveries
        /\ deliveries' = deliveries + 1
        /\ newest' = m
        /\ oldest' = IF oldest = NoMessage THEN m ELSE oldest
        /\ Entered(h, m)

\* Slack delivers the event of a message again
Redeliver(h, m) ==
    /\ hpc[h] = "idle"
    /\ deliveries < MaxDeliveries
    /\ m # NoMessage
    /\ deliveries' = deliveries + 1
    /\ UNCHANGED <<oldest, newest>>
    /\ Entered(h, m)

\* lines 154-162: auth.test answered with a user id, with none (Null), or threw
AuthDone(h, user_id) ==
    /\ hpc[h] = "auth"
    /\ IF user_id = Rejected
       THEN /\ hpc' = [hpc EXCEPT ![h] = "idle"]
            /\ msg' = [msg EXCEPT ![h] = NoMessage]
            /\ UNCHANGED <<botUserId, processedMessages, activeChannels, passed, skipped>>
       ELSE /\ botUserId' = user_id
            /\ IF user_id = Null
               THEN /\ hpc' = [hpc EXCEPT ![h] = "idle"]
                    /\ msg' = [msg EXCEPT ![h] = NoMessage]
                    /\ UNCHANGED <<processedMessages, activeChannels, passed, skipped>>
               ELSE Deduplicate(h, msg[h], user_id)
    /\ UNCHANGED otherHandlerVars

\* lines 192-197 and 202-207: the say of an activation branch came back
SayDone(h) ==
    /\ hpc[h] = "say"
    /\ hpc' = [hpc EXCEPT ![h] = "idle"]
    /\ msg' = [msg EXCEPT ![h] = NoMessage]
    /\ UNCHANGED <<botUserId, processedMessages, activeChannels, passed, skipped, otherHandlerVars>>

\* lines 230-322: the reply path came to its end
RespondDone(h) ==
    /\ hpc[h] = "respond"
    /\ hpc' = [hpc EXCEPT ![h] = "idle"]
    /\ msg' = [msg EXCEPT ![h] = NoMessage]
    /\ UNCHANGED <<botUserId, processedMessages, activeChannels, passed, skipped, otherHandlerVars>>

HandlerNext ==
    \/ \E h \in Handlers, channel \in Channels, sender \in Senders, text \in Texts :
           Deliver(h, channel, sender, text)
           /\ UNCHANGED <<serviceVars, cacheVars, bufferVars, memoryVars, restVars>>
    \/ \E h \in Handlers, m \in {oldest, newest} :
           Redeliver(h, m) /\ UNCHANGED <<serviceVars, cacheVars, bufferVars, memoryVars, restVars>>
    \/ \E h \in Handlers, user_id \in {Bot, Null, Rejected} :
           AuthDone(h, user_id) /\ UNCHANGED <<serviceVars, cacheVars, bufferVars, memoryVars, restVars>>
    \/ \E h \in Handlers : SayDone(h) /\ UNCHANGED <<serviceVars, cacheVars, bufferVars, memoryVars, restVars>>
    \/ \E h \in Handlers : RespondDone(h) /\ UNCHANGED <<serviceVars, cacheVars, bufferVars, memoryVars, restVars>>

HandlerInit ==
    /\ ProcessInit /\ BufferIdle /\ BufferHolds(0) /\ StoreEmpty /\ EnvironmentUnset /\ SearchIdle /\ ProfileIdle
    /\ \E n \in Backlogs : HandlerHolds(n)

SpecHandler == HandlerInit /\ [][HandlerNext]_vars

(***************************************************************************)
(* The claims about the retry wrapper and its circuit breaker.             *)
(***************************************************************************)
\* c starts a wrapped call in this step
Began(c) == pc[c] = "idle" /\ pc'[c] # "idle"
\* the wrapped call of c ends in failure in this step
FailedNow(c) == pc[c] = "op" /\ pc'[c] = "threw"
Transient(status) == status = 429 \/ status >= 500

(***************************************************************************)
(* updateUserPersonality (users.ts:141-170; updateUserSpeechPatterns,      *)
(* 175-204, is the same on speech_patterns), one action per await.         *)
(***************************************************************************)
\* users.ts:146, 40-42: ensureUserExists asks the cache, or goes to the SELECT
UpdateStart(u, traits) ==
    /\ ppc[u] = "idle"
    /\ traitsArg' = [traitsArg EXCEPT ![u] = traits]
    /\ ppc' = [ppc EXCEPT ![u] =
                 IF sendsCommand(redisService, connected) THEN "cache-get" ELSE "select"]
    /\ UNCHANGED <<personality_traits, cachedTraits, user, applied>>

\* users.ts:42-46: a cached profile is returned as it is
UpdateCacheGot(u) ==
    /\ ppc[u] = "cache-get"
    /\ IF redisUp /\ cachedTraits.present
       THEN /\ user' = [user EXCEPT ![u] = cachedTraits.traits]
            /\ ppc' = [ppc EXCEPT ![u] = "update"]
       ELSE /\ ppc' = [ppc EXCEPT ![u] = "select"]
            /\ UNCHANGED user
    /\ UNCHANGED <<personality_traits, cachedTraits, traitsArg, applied>>

\* users.ts:52-69: the row is read and, with the cache in reach, cached
UpdateSelected(u) ==
    /\ ppc[u] = "select"
    /\ user' = [user EXCEPT ![u] = personality_traits]
    /\ ppc' = [ppc EXCEPT ![u] =
                 IF sendsCommand(redisService, connected) THEN "cache-set" ELSE "update"]
    /\ UNCHANGED <<personality_traits, cachedTraits, traitsArg, applied>>

\* users.ts:62-69: cacheUserProfile is applied, or throws and is ignored
UpdateCached(u) ==
    /\ ppc[u] = "cache-set"
    /\ cachedTraits' = IF redisUp THEN Cached(user[u]) ELSE cachedTraits
    /\ ppc' = [ppc EXCEPT ![u] = "update"]
    /\ UNCHANGED <<personality_traits, traitsArg, user, applied>>

\* users.ts:148-156: the merged object replaces the column; a rejected
\* UPDATE is caught and logged (users.ts:167-169)
UpdateWritten(u, ok) ==
    /\ ppc[u] = "update"
    /\ IF ok
       THEN /\ personality_traits' = merge(user[u], traitsArg[u])
            /\ applied' = applied \cup traitsArg[u]
            /\ ppc' = [ppc EXCEPT ![u] =
                         IF sendsCommand(redisService, connected) THEN "keys" ELSE "done"]
       ELSE /\ ppc' = [ppc EXCEPT ![u] = "done"]
            /\ UNCHANGED <<personality_traits, applied>>
    /\ UNCHANGED <<cachedTraits, traitsArg, user>>

\* users.ts:159-164, redis.ts:214-217: keys answers; del is sent for a key
UpdateKeysDone(u) ==
    /\ ppc[u] = "keys"
    /\ ppc' = [ppc EXCEPT ![u] = IF redisUp /\ cachedTraits.present THEN "del" ELSE "done"]
    /\ UNCHANGED <<personality_traits, cachedTraits, traitsArg, user, applied>>

\* redis.ts:217-223: del is applied, or throws
UpdateDelDone(u) ==
    /\ ppc[u] = "del"
    /\ cachedTraits' = IF redisUp THEN NotCached ELSE cachedTraits
    /\ ppc' = [ppc EXCEPT ![u] = "done"]
    /\ UNCHANGED <<personality_traits, traitsArg, user, applied>>

\* users.ts:166
UpdateReturn(u) ==
    /\ ppc[u] = "done"
    /\ ppc' = [ppc EXCEPT ![u] = "idle"]
    /\ traitsArg' = [traitsArg EXCEPT ![u] = {}]
    /\ user' = [user EXCEPT ![u] = {}]
    /\ UNCHANGED <<personality_traits, cachedTraits, applied>>

ProfileNext ==
    \/ initializeRedis /\ UNCHANGED profileVars /\ UNCHANGED <<serviceVars, bufferVars, memoryVars, handlerVars, ledgerVars, vecVars>>
    \/ OnReady /\ UNCHANGED profileVars /\ UNCHANGED <<serviceVars, bufferVars, memoryVars, handlerVars, ledgerVars, vecVars>>
    \/ RedisFails /\ UNCHANGED profileVars /\ UNCHANGED <<serviceVars, bufferVars, memoryVars, handlerVars, ledgerVars, vecVars>>
    \/ RedisRecovers /\ UNCHANGED profileVars /\ UNCHANGED <<serviceVars, bufferVars, memoryVars, handlerVars, ledgerVars, vecVars>>
    \/ \E u \in Updaters, traits \in SUBSET TraitKeys :
           traits \in Arguments(u) /\ UpdateStart(u, traits) /\ UNCHANGED <<serviceVars, cacheVars, bufferVars, memoryVars, handlerVars, ledgerVars, vecVars>>
    \/ \E u \in Updaters : UpdateCacheGot(u) /\ UNCHANGED <<serviceVars, cacheVars, bufferVars, memoryVars, handlerVars, ledgerVars, vecVars>>
    \/ \E u \in Updaters : UpdateSelected(u) /\ UNCHANGED <<serviceVars, cacheVars, bufferVars, memoryVars, handlerVars, ledgerVars, vecVars>>
    \/ \E u \in Updaters : UpdateCached(u) /\ UNCHANGED <<serviceVars, cacheVars, bufferVars, memoryVars, handlerVars, ledgerVars, vecVars>>
    \/ \E u \in Updaters, ok \in BOOLEAN : UpdateWritten(u, ok) /\ UNCHANGED <<serviceVars, cacheVars, bufferVars, memoryVars, handlerVars, ledgerVars, vecVars>>
    \/ \E u \in Updaters : UpdateKeysDone(u) /\ UNCHANGED <<serviceVars, cacheVars, bufferVars, memoryVars, handlerVars, ledgerVars, vecVars>>
    \/ \E u \in Updaters : UpdateDelDone(u) /\ UNCHANGED <<serviceVars, cacheVars, bufferVars, memoryVars, handlerVars, ledgerVars, vecVars>>
    \/ \E u \in Updaters : UpdateReturn(u) /\ UNCHANGED <<serviceVars, cacheVars, bufferVars, memoryVars, handlerVars, ledgerVars, vecVars>>

SpecProfile == Init /\ [][ProfileNext]_vars


\* C1: after 5 consecutive terminal failures of the wrapped call, a call that
\* starts while the scheduled reset time has not passed fails with the
\* circuit-open error and does not invoke the operation.
C1_OpenRejectsNextCall ==
    [][\A c \in Calls :
        (/\ Began(c)
         /\ failStreak >= 5
         /\ ~(circuitBreakerResetTime # NoTime /\ Now > circuitBreakerResetTime))
        => (pc'[c] = "threw" /\ err'[c] = CircuitOpenError /\ invoked'[c] = 0)]_vars

C1_Witness ==
    \E c \in Calls :
        /\ pc[c] = "threw" /\ err[c] = CircuitOpenError /\ invoked[c] = 0
        /\ failStreak >= 5 /\ circuitBreakerResetTime >= Now

\* C2 as claimed: once a call has been admitted because the reset time has
\* passed, no other call invokes the operation until that trial succeeds,
\* neither while the trial is in flight nor after it failed.
C2_OnlyOneTrial ==
    [][\A c \in Calls :
        (/\ Began(c)
         /\ \/ trial # {}
            \/ trialFailed /\ ~(circuitBreakerOpen
                                /\ circuitBreakerResetTime # NoTime
                                /\ Now > circuitBreakerResetTime))
        => pc'[c] # "op"]_vars

\* C2 as amended: a call that starts while the breaker is open and the reset
\* time has passed invokes the operation and, on being admitted, closes the
\* breaker and resets the failure count to 0; so a call that starts while that
\* trial is in flight or after it failed invokes the operation as well, as
\* long as the breaker has not opened again.
C2_ResetReopensForAll ==
    [][\A c \in Calls :
        Began(c) =>
          /\ (circuitBreakerOpen /\ circuitBreakerResetTime # NoTime
                /\ Now > circuitBreakerResetTime)
             => (/\ pc'[c] = "op" /\ invoked'[c] = 1
                 /\ ~circuitBreakerOpen' /\ consecutiveFailures' = 0)
          /\ ((trial # {} \/ trialFailed) /\ ~circuitBreakerOpen)
             => (pc'[c] = "op" /\ invoked'[c] = 1)]_vars

C2_Witness ==
    \E c \in trial : \E d \in Calls \ trial :
        /\ pc[c] = "op" /\ pc[d] = "op"
        /\ ~circuitBreakerOpen /\ circuitBreakerResetTime = Past

\* C3: whenever a wrapped call returns successfully, the consecutive-failure
\* count is 0 and the breaker is closed immediately afterwards.
C3_SuccessClosesBreaker ==
    [][\A c \in Calls :
        (pc[c] = "op" /\ pc'[c] = "returned")
        => (consecutiveFailures' = 0 /\ ~circuitBreakerOpen')]_vars

\* C4: a wrapped call that ends in failure raises the consecutive-failure
\* count by exactly 1, whatever the number of retries; the breaker goes from
\* closed to open exactly in a failure that brings the count to 5, the reset
\* time then being that instant plus 60000 ms; and the error reaches the
\* caller.
C4_FailureCountsOnce ==
    [][/\ \A c \in Calls :
            FailedNow(c) =>
              /\ consecutiveFailures' = consecutiveFailures + 1
              /\ IF consecutiveFailures' >= 5
                 THEN circuitBreakerOpen' /\ circuitBreakerResetTime' = Now + 60000
                 ELSE UNCHANGED <<circuitBreakerOpen, circuitBreakerResetTime>>
              /\ err'[c].kind = "api"
       /\ (~circuitBreakerOpen /\ circuitBreakerOpen')
            <=> (consecutiveFailures' = 5 /\ ~circuitBreakerOpen
                 /\ \E c \in Calls : FailedNow(c))]_vars

C4_Witness ==
    \E c \in Calls :
        /\ pc[c] = "threw" /\ err[c] = ApiError(500) /\ invoked[c] = 4
        /\ consecutiveFailures = 5 /\ circuitBreakerOpen
        /\ circuitBreakerResetTime = 60000

\* C5: within one wrapped call only an error of status 429 or >= 500 is
\* retried, at most 3 times, after min(1000 * 2^attempt, 10000) ms; another
\* error ends the call at once, so a call whose first error is not transient
\* invoked the operation exactly once, and no call invokes it more than 4
\* times.
C5_OnlyTransientRetried ==
    [][\A c \in Calls :
        /\ (pc[c] = "op" /\ pc'[c] = "backoff")
           => (/\ Transient(err'[c].status)
               /\ attempt[c] < 3
               /\ wake'[c] = Now + Min(1000 * (2 ^ attempt[c]), 10000))
        /\ (pc[c] = "op" /\ err'[c].kind = "api" /\ ~Transient(err'[c].status))
           => (pc'[c] = "threw" /\ (err[c] = NoError => invoked'[c] = 1))
        /\ invoked'[c] <= 3 + 1]_vars

C5_Witness ==
    \E c \in Calls :
        /\ pc[c] = "backoff" /\ attempt[c] = 2 /\ wake[c] = 4000
        /\ invoked[c] = 3 /\ err[c] = ApiError(429)

\* the breaker is open and its reset time has not passed
blocking == circuitBreakerOpen /\ ~resetElapsed(Now, circuitBreakerResetTime)

\* call c sends a request to the remote model in this step
IssuesClassification(c) == pc[c] # "op" /\ pc'[c] = "op"
IssuesMemoryFormation(c) == mpc[c] # "chat" /\ mpc'[c] = "chat"
IssuesMemoryEmbedding(c) == mpc[c] = "chat" /\ mpc'[c] \in {"embed", "embed-usage"}
IssuesSearchEmbedding(c) == rpc[c] # "embed" /\ rpc'[c] = "embed"
IssuesResponse(c) == rpc[c] # "respond" /\ rpc'[c] = "respond"

\* C6: no remote model call (classification, memory formation and its
\* embedding, response generation) reaches the API while the breaker is open
\* and its reset time has not passed.
C6_NoCallWhileOpen ==
    [][\A c \in Calls :
        (\/ IssuesClassification(c)
         \/ IssuesMemoryFormation(c)
         \/ IssuesMemoryEmbedding(c)
         \/ IssuesSearchEmbedding(c)
         \/ IssuesResponse(c)) => ~blocking]_vars

\* C6 as the code has it: only the classification call runs through the
\* wrapper.  A classification call started while the breaker is open and its
\* reset time has not passed is thrown out before it reaches the API; the
\* memory-formation call and the embedding of the response branch are sent
\* whenever the classification asks for them, whatever the breaker's state.
C6_OnlyClassificationGuarded ==
    [][\A c \in Calls :
        /\ (Began(c) /\ blocking)
           => (~IssuesClassification(c) /\ invoked'[c] = 0 /\ err'[c] = CircuitOpenError)
        /\ (pc[c] = "ingested" /\ pc'[c] = "join")
           => /\ formsMemory(decision[c]) => IssuesMemoryFormation(c)
              /\ decision[c].shouldRespond => IssuesSearchEmbedding(c)
              /\ UNCHANGED breakerVars
        /\ (mpc[c] = "chat" /\ mpc'[c] # "chat" /\ mpc'[c] # "failed")
           => IssuesMemoryEmbedding(c)
        /\ (rpc[c] = "context" /\ rpc'[c] # "context") => IssuesResponse(c)]_vars

\* a response branch sends its embedding request although the wrapper has just
\* thrown this call out and the breaker is still open
C6_Witness ==
    \E c \in Calls :
        /\ rpc[c] = "embed" /\ err[c] = CircuitOpenError /\ invoked[c] = 0
        /\ blocking

\* C7: every terminal outcome of a wrapped call, success or failure, leaves
\* exactly one Interaction row appended by the caller.
C7_EveryOutcomeRecorded ==
    \A c \in Calls : pc[c] = "ingested" => Len(interactions[c]) = 1

(***************************************************************************)
(* The claims about the entity cache.                                      *)
(***************************************************************************)
\* the call has returned a profile
Returned(r) == gpc[r] = "done" /\ result[r].kind \in {"hit", "loaded", "created"}
\* the call returns in this step with a profile it did not find in the cache
ReturnsMiss(r) ==
    gpc[r] # "done" /\ gpc'[r] = "done" /\ result'[r].kind \in {"loaded", "created"}

\* C8: in any interleaving of reads and writers of one entity, a read that
\* started after an invalidate returned never returns a value older than the
\* write that invalidate followed.
C8_NoStaleReadAfterInvalidate ==
    \A r \in Readers : Returned(r) => result[r].profile.version >= floor[r]

\* C9: a get that misses while the substrate is available returns the value of
\* the persistent store and leaves it in the cache with a TTL of 3600 s, so
\* that the next get is a hit, whether the entity existed or the get created it.
C9_MissPopulatesCache ==
    [][\A r \in Readers :
        (ReturnsMiss(r) /\ redisService /\ connected /\ redisUp)
        => /\ cache' = [value |-> stringify(result'[r].profile), ttl |-> 3600]
           /\ getCachedUserProfile(redisUp', cache') # NoProfile]_vars

\* C10: when the substrate is unavailable (no singleton, not connected, or
\* its commands throw) a get behaves as a miss: it goes on to the persistent
\* store on every call, returns the persisted value, leaves the cache alone,
\* and throws nothing on account of the cache.
C10_UnavailableIsMiss ==
    [][\A r \in Readers :
        /\ (gpc[r] = "idle" /\ gpc'[r] # "idle" /\ ~(redisService /\ connected))
           => gpc'[r] = "select"
        /\ (gpc[r] = "cache-get" /\ gpc'[r] # "cache-get" /\ ~redisUp)
           => (gpc'[r] = "select" /\ result'[r] = NoResult)
        /\ (gpc[r] = "select" /\ gpc'[r] = "done")
           => (result'[r] = [kind |-> "loaded", profile |-> [version |-> users, dates |-> "Date"]]
               /\ cache' = cache)
        /\ (gpc[r] = "cache-set" /\ gpc'[r] # "cache-set" /\ ~redisUp)
           => (gpc'[r] = "done" /\ cache' = cache
               /\ result'[r] = [kind |-> "loaded", profile |-> profile[r]])
        /\ (result'[r].kind = "error" /\ result[r].kind # "error")
           => gpc[r] = "insert"]_vars

\* a get has returned the row of the store while the substrate is unusable
\* and the key in it holds an older value
C10_Witness ==
    \E r \in Readers :
        /\ gpc[r] = "done" /\ result[r].kind = "loaded"
        /\ ~(redisService /\ connected /\ redisUp)
        /\ cache # NoEntry
        /\ cache.value.json < result[r].profile.version

\* C11: a cached entity is never returned once its TTL has elapsed since it
\* was cached: a lookup after that is a miss, and the get goes on to the
\* persistent store and returns the row it reads there.
C11_ExpiredNeverReturned ==
    [][\A r \in Readers :
        /\ (gpc[r] = "cache-get" /\ result'[r].kind = "hit")
           => (cachedFor < 3600 /\ cache.ttl > 0)
        /\ (gpc[r] = "cache-get" /\ gpc'[r] # "cache-get" /\ expired)
           => (gpc'[r] = "select" /\ result'[r] = NoResult)
        /\ (gpc[r] = "select" /\ gpc'[r] # "select" /\ lookup[r] = "expired" /\ users # NoRow)
           => profile'[r] = [version |-> users, dates |-> "Date"]]_vars

\* a get whose lookup found the key expired has returned the row of the store
C11_Witness ==
    \E r \in Readers :
        /\ lookup[r] = "expired" /\ gpc[r] = "done"
        /\ result[r] = [kind |-> "loaded", profile |-> [version |-> users, dates |-> "Date"]]

(***************************************************************************)
(* The claims about the message buffer.                                    *)
(***************************************************************************)
\* no bufferMessage call is under way
NoAppendUnderWay == \A a \in Appenders : apc[a] \in {"idle", "done"}
\* the n newest messages of the list, as getRecentMessages hands them out
Newest(n) ==
    [i \in 1..(IF Len(messages) < n THEN Len(messages) ELSE n) |->
        [stamp |-> messages[i].json, channel |-> "undefined"]]
\* getRecentMessages call q gets its answer from Redis in this step
Answered(q) == qpc[q] = "lrange" /\ qpc'[q] = "done" /\ redisUp

\* C12: after any 100 or more completed appends to a channel its list holds
\* exactly 100 entries, and getRecentMessages(channel, 100) returns the 100
\* most recently appended messages, newest first.  Only the appends that put
\* their message on the list are counted here.
C12_HundredAfterHundredAppends ==
    [][/\ (NoAppendUnderWay /\ pushed >= 100) => Len(messages) = 100
       /\ \A q \in Queries :
            (Answered(q) /\ limit[q] = 100 /\ pushed >= 100)
            => (Len(recent'[q]) = 100
                /\ \A i \in 1..100 : recent'[q][i].stamp = pushed + 1 - i)]_vars

\* C12 as the code has it: an applied lPush puts the message at the head of
\* the list and an applied lTrim cuts the list to its 100 newest entries, so
\* the list is at all times a run of the most recently pushed messages,
\* newest first, and getRecentMessages(channel, 100) returns its 100 newest
\* (all of them when it holds fewer).  It holds exactly 100 only after a trim
\* of a list that had 100 or more: an append that was skipped or whose lPush
\* failed adds nothing, one whose lTrim failed leaves more than 100.
C12_NewestHundredKept ==
    [][/\ \A i \in 1..Len(messages) : messages[i].json = pushed + 1 - i
       /\ pushed' # pushed
          => (pushed' = pushed + 1 /\ messages' = <<[json |-> pushed']>> \o messages)
       /\ \A a \in Appenders :
            (apc[a] = "ltrim" /\ apc'[a] = "expire")
            => /\ Len(messages') = (IF Len(messages) < 100 THEN Len(messages) ELSE 100)
               /\ \A i \in 1..Len(messages') : messages'[i] = messages[i]
       /\ \A q \in Queries :
            (Answered(q) /\ limit[q] = 100) => recent'[q] = Newest(100)]_vars

\* more than 100 messages were pushed, no append is under way, the list holds
\* 100 and getRecentMessages(channel, 100) has returned the 100 newest
C12_Witness ==
    \E q \in Queries :
        /\ NoAppendUnderWay /\ pushed > 100 /\ Len(messages) = 100
        /\ qpc[q] = "done" /\ limit[q] = 100 /\ Len(recent[q]) = 100
        /\ recent[q][1].stamp = pushed /\ recent[q][100].stamp = pushed - 99

\* C13: for every limit >= 0, getRecentMessages(channel, limit) returns at
\* most limit entries, the most recently appended ones, newest first, and the
\* empty sequence when the list does not exist or the substrate is unavailable.
C13_AtMostLimit ==
    [][\A q \in Queries :
        /\ (qpc[q] # "done" /\ qpc'[q] = "done")
           => Len(recent'[q]) <= limit'[q]
        /\ Answered(q) => recent'[q] = Newest(limit[q])
        /\ (qpc[q] = "lrange" /\ qpc'[q] = "done" /\ (~redisUp \/ messages = <<>>))
           => recent'[q] = <<>>
        /\ (qpc[q] = "idle" /\ qpc'[q] = "done") => recent'[q] = <<>>]_vars

\* C14: bufferMessage never raises to its caller: when the substrate is
\* unavailable it changes nothing and returns normally, and when a command
\* fails midway it still returns normally.
C14_BufferNeverRaises ==
    [][\A a \in Appenders :
        /\ outcome'[a] # "raised"
        /\ (apc[a] # "done" /\ apc'[a] = "done")
           => outcome'[a] \in {"skipped", "logged", "buffered"}
        /\ (apc[a] = "idle" /\ apc'[a] # "idle" /\ ~connected)
           => (apc'[a] = "done" /\ outcome'[a] = "skipped"
               /\ UNCHANGED <<messages, msgTtl, pushed>>)
        /\ (apc[a] \in {"lpush", "ltrim", "expire"} /\ apc'[a] # apc[a] /\ ~redisUp)
           => (apc'[a] = "done" /\ outcome'[a] = "logged"
               /\ UNCHANGED <<messages, msgTtl, pushed>>)]_vars

\* an append has returned after its lTrim failed: its message is on the list,
\* which is left longer than 100
C14_Witness ==
    \E a \in Appenders :
        /\ apc[a] = "done" /\ outcome[a] = "logged"
        /\ NoAppendUnderWay /\ Len(messages) = 101

\* the time a stored expires_at text stands for has passed
Lapsed(id, now) == memories[id].kept /\ before(instant(memories[id].expires_at), now)

\* C15: when the storage write of memory formation fails, formMemory returns
\* null and processMessage reports memoryFormed = false; memoryFormed = true
\* only if a memory record was persisted.
C15_FormedOnlyIfPersisted ==
    \A f \in Formers : (fpc[f] = "done" /\ memoryFormed[f]) => saved[f]

\* C16: creating a memory with significance outside [0,1] is rejected: no
\* record is persisted and the creation is reported as failed to the caller.
C16_OutOfRangeRejected ==
    \A f \in Formers :
        (fpc[f] = "done" /\ (memory[f].significance < 0 \/ memory[f].significance > 10))
            => /\ ~saved[f] /\ ~memoryFormed[f]
               /\ memoryId[f] # 0 => ~memories[memoryId[f]].kept

\* C17: a memory whose expiration time is in the past, by any amount, is
\* never among the rows searchMemories or getRecentMemories select, while its
\* record is still in the table.
C17_ExpiredNeverSelected ==
    [][/\ \A s \in Searchers :
              (spc[s] = "select" /\ spc'[s] = "update")
                  => \A id \in results'[s] : ~Lapsed(id, clock)
       /\ selected' # selected => \A id \in selected' : ~Lapsed(id, clock)]_vars

\* C18: cleanupExpiredMemories deletes every record whose expiration is set
\* and in the past and no other record, and returns the number deleted; a
\* second call with no new expirations returns 0.
C18_CleanupDeletesExpired ==
    [][(removed = NoCount /\ removed' \notin {NoCount, Raised})
           => /\ \A id \in Ids : memories'[id].kept = (memories[id].kept /\ ~Lapsed(id, clock))
              /\ removed' = Cardinality({id \in Ids : Lapsed(id, clock)})
              /\ \A id \in Ids : ~expiredRow(memories'[id], clock')]_vars

\* the UPDATE of a search has been answered
Counted(s) == spc[s] = "update" /\ spc'[s] = "done"

\* C19: a searchMemories call increments the reference count by exactly 1
\* for every record it returns and for no other record; a search that
\* returns nothing changes no reference count, and nothing else counts.
C19_ReturnedCountedOnce ==
    [][/\ \A s \in Searchers : Counted(s) =>
              \A id \in Ids : memories[id].kept =>
                  /\ memories'[id].kept
                  /\ memories'[id].reference_count =
                         memories[id].reference_count + (IF id \in found'[s] THEN 1 ELSE 0)
       /\ \A s \in Searchers :
              (spc[s] # "done" /\ spc'[s] = "done" /\ found'[s] = {}) => memories' = memories
       /\ (\A s \in Searchers : ~Counted(s)) =>
              \A id \in Ids : (memories[id].kept /\ memories'[id].kept) =>
                  memories'[id].reference_count = memories[id].reference_count]_vars

\* a second search has returned one of two records it could have returned:
\* that one was counted twice, the other never
C19_Witness ==
    \E s \in Searchers, id, other \in Ids :
        /\ spc[s] = "done" /\ found[s] = {id} /\ other # id
        /\ memories[id].kept /\ memories[id].reference_count = 2
        /\ other \in vec_memories /\ memories[other].kept /\ memories[other].reference_count = 0

\* C20: when no query embedding of dimension 1536 can be produced,
\* searchMemories falls back to keyword matching, so a non-expired record
\* whose searchable text contains the query is still returned.
C20_KeywordFallback ==
    [][\A s \in Searchers :
          (spc[s] = "embed" /\ spc'[s] = "done"
             /\ \E id \in Ids : /\ memories[id].kept /\ ~Lapsed(id, clock)
                                /\ contains(memories[id].searchable_text, Query))
          => \E id \in found'[s] : contains(memories[id].searchable_text, Query)]_vars

\* C21: when the embedding of a new memory is missing or not of dimension
\* 1536, the record is persisted without a row in the vector index, and a
\* search still retrieves it through its searchable text.
C21_UnindexedStillFound ==
    [][/\ \A f \in Formers :
              (fpc[f] = "insert" /\ saved'[f] /\ ~indexable(memory[f].dims))
                  => /\ memories'[memoryId[f]].kept
                     /\ memoryId[f] \notin vec_memories'
                     /\ fpc'[f] = "done"
       /\ \A s \in Searchers :
              (spc[s] = "select" /\ spc'[s] = "update")
                  => \A id \in Ids :
                         (/\ memories[id].kept /\ id \notin vec_memories
                          /\ ~Lapsed(id, clock)
                          /\ contains(memories[id].searchable_text, Query))
                             => \/ id \in results'[s]
                                \/ Cardinality(results'[s]) >= searchLimit[s]]_vars

\* C22: searchMemories and getRecentMemories never throw: when the
\* embedding or the store fails they return the empty list.
C22_ReadsNeverThrow ==
    [][/\ escaped' = {}
       /\ \A s \in Searchers :
              /\ (spc[s] \in {"embed", "select"} /\ spc'[s] = "done") => found'[s] = {}
              /\ (spc[s] = "update" /\ spc'[s] = "done" /\ memories' = memories
                    /\ \E id \in results[s] : memories[id].kept) => found'[s] = {}
       /\ selected' # selected => selected' \subseteq {id \in Ids : memories[id].kept}]_vars

\* a search has returned nothing because its UPDATE was rejected
C22_Witness ==
    \E s \in Searchers :
        /\ spc[s] = "done" /\ found[s] = {} /\ escaped = {}
        /\ \E id \in results[s] : memories[id].kept /\ memories[id].reference_count = 0

\* C24: after deleteUserData has completed successfully, no memory record
\* that originated from that user remains in the memory store.
C24_ErasureRemovesMemories ==
    [][(dpc = "memories" /\ dpc' = "done") => \A id \in Ids : ~memories'[id].kept]_vars

\* C30: the reference count of a memory record is a non-negative integer
\* that starts at 0 and never decreases.
C30_ReferenceCountMonotone ==
    [][\A id \in Ids :
          /\ memories[id].kept => memories[id].reference_count >= 0
          /\ (~memories[id].kept /\ memories'[id].kept) => memories'[id].reference_count = 0
          /\ (memories[id].kept /\ memories'[id].kept)
                => memories'[id].reference_count >= memories[id].reference_count]_vars

\* a record created with count 0 has been counted by a search and outlived
\* a cleanup that had nothing to delete
C30_Witness ==
    \E id \in Ids :
        /\ memories[id].kept /\ memories[id].reference_count = 2
        /\ removed = 0

\* C23: processMessage starts memory formation and response generation
\* together after the classification and waits for both whatever becomes of
\* either: it returns only when both are over, and a failure in one branch
\* leaves the other where it was.
C23_WaitsForBoth ==
    [][\A c \in Calls :
        /\ (pc[c] = "ingested" /\ pc'[c] # "ingested")
           => (pc'[c] = "join" /\ mpc'[c] # "none" /\ rpc'[c] # "none")
        /\ (pc[c] = "join" /\ pc'[c] # "join")
           => (settled(mpc[c]) /\ settled(rpc[c]) /\ pc'[c] = "idle")
        /\ (pc[c] = "join" /\ mpc[c] # "failed" /\ mpc'[c] = "failed")
           => (rpc'[c] = rpc[c] /\ pc'[c] = "join")
        /\ (pc[c] = "join" /\ rpc[c] # "failed" /\ rpc'[c] = "failed")
           => (mpc'[c] = mpc[c] /\ pc'[c] = "join")
        /\ (pc[c] = "join" /\ pc'[c] = "join" /\ settled(mpc[c])) => mpc'[c] = mpc[c]
        /\ (pc[c] = "join" /\ pc'[c] = "join" /\ settled(rpc[c])) => rpc'[c] = rpc[c]]_vars

\* the memory branch has failed and processMessage still waits for the
\* response, which is being generated
C23_Witness ==
    \E c \in Calls : pc[c] = "join" /\ mpc[c] = "failed" /\ rpc[c] = "respond"

\* C27: no reader, getRecentMessages or getBufferSize, ever observes a
\* channel list longer than 100 entries, also between the steps of
\* concurrent appends.
C27_NoReaderSeesOverCap ==
    [][/\ \A a \in Appenders :
              (apc[a] = "llen" /\ apc'[a] = "done" /\ redisUp) => Len(messages) <= 100
       /\ \A q \in Queries : Answered(q) => Len(recent'[q]) <= 100]_vars

\* C27, as the code has it: lPush and lTrim are two commands, each applied at
\* once.  A push makes the list one longer, whatever its length; every
\* applied trim brings it back to at most 100; what getBufferSize reads is
\* the list as it is, and a read with a limit from 1 to 100 returns at most
\* that many entries.
C27_TrimRestoresCap ==
    [][/\ \A a \in Appenders :
              /\ (apc[a] = "lpush" /\ apc'[a] = "ltrim") => Len(messages') = Len(messages) + 1
              /\ (apc[a] = "ltrim" /\ apc'[a] = "expire") => Len(messages') <= 100
       /\ \A q \in Queries :
              (Answered(q) /\ limit[q] >= 1 /\ limit[q] <= 100) => Len(recent'[q]) <= limit[q]]_vars

\* an append stands between its push and its trim with 101 entries on the
\* list, and a read of 100 made since that push has returned 100 of them
C27_Witness ==
    \E a \in Appenders, q \in Queries :
        /\ apc[a] = "ltrim" /\ Len(messages) = 101
        /\ qpc[q] = "done" /\ limit[q] = 100 /\ Len(recent[q]) = 100
        /\ recent[q][1].stamp = pushed

\* C28: once an append has added its entry, the list carries the 24 hour
\* expiration counted from that append, also when a later step of the
\* append fails: no list is left without an expiration.
C28_AppendSetsExpiry ==
    [][\A a \in Appenders :
          (apc[a] \in {"ltrim", "expire"} /\ apc'[a] \notin {"ltrim", "expire"}
             /\ messages' # <<>>)
          => msgTtl' = BufferTtlS]_vars

\* C29: an operation that changes a persisted profile invalidates the
\* profile's cache entry, and only after its write is done; when the
\* operation returns, no cache entry holds a value from before the write,
\* also when the substrate was unavailable for the invalidation.
C29_WriteInvalidates ==
    [][\A w \in Writers :
        /\ (wpc[w] = "update" /\ wpc'[w] # "update" /\ users # NoRow)
           => (users' = users + 1 /\ wrote'[w] = users' /\ cache' = cache)
        /\ (wpc[w] # wpc'[w] /\ wpc'[w] \in {"keys", "del"}) => wpc[w] \in {"update", "keys"}
        /\ (wpc[w] # "done" /\ wpc'[w] = "done" /\ wrote'[w] # NoRow)
           => (cache' = NoEntry \/ cache'.value.json >= wrote'[w])]_vars

(***************************************************************************)
(* The claims about the v2 message handler.                                *)
(***************************************************************************)
\* h reaches the say of an activation branch in this step, with a mention or
\* a direct message whose lowered text contains the word
Commanded(h, word) ==
    /\ hpc[h] # "say"
    /\ hpc'[h] = "say"
    /\ includes(trim(toLowerCase(msg'[h].text)), word)

\* C25: when the handler has handled a mention or direct message whose text
\* contains "deactivate", the channel is not in the active set.
C25_DeactivateTurnsOff ==
    [][\A h \in Handlers :
        Commanded(h, <<"d", "e", "a", "c", "t", "i", "v", "a", "t", "e">>)
        => msg'[h].channel \notin activeChannels']_vars

\* the id that passes the deduplication in this step
Passing == passed'[Len(passed')]
\* how many ids passed the deduplication after the last pass of id
Since(id) ==
    LET last == CHOOSE i \in DOMAIN passed :
                    passed[i] = id /\ \A j \in DOMAIN passed : passed[j] = id => j <= i
    IN  Len(passed) - last

\* C26: a message identified by channel and ts passes the deduplication at
\* most once, whatever was delivered in between.
C26_ProcessedAtMostOnce ==
    [][passed' # passed => ~has(passed, Passing)]_vars

\* C26, as the code has it: a message passes the deduplication a second time
\* only when more than PruneCount other ids passed since its last pass; up to
\* there a second delivery is skipped.
C26_SkippedWhileKept ==
    [][(passed' # passed /\ has(passed, Passing)) => Since(Passing) > PruneCount]_vars

\* the set was pruned, and a later second delivery of the newest message was
\* skipped
C26_Witness ==
    /\ Len(passed) > PruneAbove
    /\ newest.ts > Backlog
    /\ messageId(newest) \in skipped

(***************************************************************************)
(* The claims about the state of the breaker.                              *)
(***************************************************************************)
\* C36: in every reachable state an open breaker has a failure count of at
\* least the threshold and a reset time, and a closed breaker has a failure
\* count of at most the threshold.
C36_OpenMeansThreshold ==
    /\ circuitBreakerOpen =>
           (consecutiveFailures >= FailureThreshold /\ circuitBreakerResetTime # NoTime)
    /\ ~circuitBreakerOpen => consecutiveFailures <= FailureThreshold

\* C37: a call that starts while the breaker is open and more than the reset
\* delay after it opened invokes the operation, and when the operation of
\* that call succeeds the breaker is closed and the failure count is 0.
C37_LateCallClosesBreaker ==
    [][\A c \in Calls :
        /\ (Began(c) /\ circuitBreakerOpen /\ resetElapsed(Now, circuitBreakerResetTime))
           => (pc'[c] = "op" /\ invoked'[c] = 1)
        /\ (c \in trial /\ pc[c] = "op" /\ pc'[c] = "returned")
           => (~circuitBreakerOpen' /\ consecutiveFailures' = 0)]_vars

(***************************************************************************)
(* The claims about the ledger write.                                      *)
(***************************************************************************)
\* C33: whether the INSERT of recordInteraction is stored or rejected, the
\* operation that recorded goes on as after a stored one: the classification
\* returns its decision, the memory is handed to the INSERT INTO memories,
\* the response is returned.
C33_LedgerFailureSwallowed ==
    [][/\ (pc[1] = "record" /\ pc'[1] # "record")
          => (pc'[1] = "ingested" /\ decision'[1] = decision[1])
       /\ (mpc[1] = "record" /\ mpc'[1] # "record") => mpc'[1] = "insert"
       /\ (mpc[1] = "record-vec" /\ mpc'[1] # "record-vec") => mpc'[1] = "insert-vec"
       /\ (rpc[1] = "record" /\ rpc'[1] # "record") => rpc'[1] = "done"]_vars

\* all three ledger writes of a run failed, and both branches came to their
\* end with their values
C33_Witness ==
    /\ lost = {"ingestion", "memory_formation", "response_generation"}
    /\ interactions[1] = <<>>
    /\ pc[1] = "join" /\ formsMemory(decision[1])
    /\ mpc[1] = "done" /\ rpc[1] = "done"

(***************************************************************************)
(* The claims about a failed classification.                               *)
(***************************************************************************)
\* the decision asks for nothing
Safe(d) == ~d.shouldFormMemory /\ ~d.shouldRespond /\ d.significance = 0

\* C35: when the wrapped classification call threw, or resolved with content
\* that is missing, unparsable or invalid, ingestMessage returns the safe
\* default; processMessage then starts no memory formation, and a response
\* exactly when the message mentions the bot or is a DM.
C35_FailedClassificationIsSafe ==
    [][/\ (pc[1] = "threw" /\ pc'[1] # "threw") => (pc'[1] = "ingested" /\ Safe(decision'[1]))
       /\ (pc[1] = "returned" /\ resp[1].content # "ok" /\ pc'[1] # "returned")
          => (pc'[1] = "ingested" /\ Safe(decision'[1]))
       /\ (pc[1] = "ingested" /\ pc'[1] = "join" /\ Safe(decision[1]))
          => (mpc'[1] = "done" /\ (rpc'[1] # "done" <=> addressed'))]_vars

\* the breaker rejected the classification of a message that mentions the
\* bot: no memory formation, the response under way
C35_Witness ==
    /\ pc[1] = "join" /\ err[1] = CircuitOpenError /\ Safe(decision[1])
    /\ addressed /\ mpc[1] = "done" /\ rpc[1] = "embed"

(***************************************************************************)
(* The claims about the SELECT of searchMemories.                          *)
(***************************************************************************)
\* the records of the channel that have not expired
Eligible == {id \in DOMAIN vecTable : where(vecTable[id], clock, vecChannel)}

\* C31: a search that resolved returns the min(limit, k) nearest of the k
\* indexed records of its channel that have not expired, by ascending
\* distance.
C31_FilterBeforeLimit ==
    (vpc = "done" /\ vecOk) => vecRows = limitTo(orderByDistance(Eligible), vecLimit)

(***************************************************************************)
(* The expiration of a persisted memory.                                   *)
(***************************************************************************)
\* the INSERT of formMemory call f stores the record id in this step
Persists(f, id) == memoryId[f] = id /\ ~memories[id].kept /\ memories'[id].kept

\* the configured window in days
Window == expirationDays(MEMORY_EXPIRATION_DAYS).value

ExpiresAfterWindow(f, id) ==
    /\ instant(memories'[id].expires_at).date = createdAt[f].date + Window
    /\ instant(memories'[id].expires_at).time = createdAt[f].time

ExpirationKept ==
    \A id \in Ids :
        memories[id].kept /\ memories'[id].kept
            => memories'[id].expires_at = memories[id].expires_at

Stored(f) ==
    /\ FormInsertDone(f, TRUE)
    /\ memories'[memoryId[f]].kept
    /\ UNCHANGED <<serviceVars, cacheVars, bufferVars, handlerVars, restVars>>

\* C40: persisting a memory does not depend on the author's users row: whenever
\* formMemory sends the INSERT of a memory with a valid significance, a
\* database that is up stores it, whether or not ensureUserExists ran before.
C40_StoredWithoutProfile ==
    \A f \in Formers :
        fpc[f] = "insert" /\ checkSignificance(memory[f].significance) => ENABLED Stored(f)

(***************************************************************************)
(* The vector index and the records it points to.                          *)
(***************************************************************************)
\* C39: every entry of the vector index vec_memories refers to an existing
\* memory record, in every reachable state.
C39_IndexRefersToRecord == \A id \in vec_memories : memories[id].kept

(***************************************************************************)
(* Concurrent ensureUserExists calls for one unknown user.                 *)
(***************************************************************************)
\* C34: whatever the interleaving of concurrent ensureUserExists calls for one
\* user, every call that finishes returns a profile of the one persisted
\* users row and none raises.
C34_EveryCallReturnsTheRecord ==
    \A r \in Readers :
        gpc[r] = "done" => users # NoRow /\ result[r].kind # "error"

(***************************************************************************)
(* Concurrent profile updates.                                             *)
(***************************************************************************)
\* C38: no profile update is lost: once the concurrent updateUserPersonality
\* calls with disjoint keys have completed, the persisted traits contain the
\* keys of every call whose UPDATE was applied.
C38_NoLostUpdate ==
    (\A u \in Updaters : ppc[u] = "idle") => applied \subseteq personality_traits

====
